---- MODULE Spec2Model ----
(***************************************************************************)
(* Batch instance provisioning of the GCE resource adapter                 *)
(* (src/src/tortuga/resourceAdapter/gceadapter/gce.py): Gce.start,         *)
(* __addActiveNodes, __launch_instances, the gevent worker pool of         *)
(* __wait_for_instances and the reconciliation of __post_launch_action.    *)
(***************************************************************************)
EXTENDS Integers, Sequences, FiniteSets, TLC

\* Largest batch size (addNodesRequest['count']) explored.
MaxBatch == 2

\* Largest disk index the storage catalog reports as added.
MaxDisk == 2

\* Upper limit of the greenlet pool of __wait_for_instances.
PoolLimit == 10

\* Largest batch size explored for the wait phase alone.
MaxPoolBatch == 11

\* Largest number of status polls explored within one call of the poller.
MaxPolls == 3

\* Largest number of calls of the poller on the same operation.
MaxCalls == 2

\* Gce.DEFAULT_SLEEP_TIME, the default of the 'sleeptime' setting (seconds).
DEFAULT_SLEEP_TIME == 5

\* max_sleep_time of _gevent_blocking_call (milliseconds).
max_sleep_time == 5000

\* A node_request dict without the 'message' key.
NoMessage == "<no message key>"

VARIABLES
    count,        \* addNodesRequest['count']
    added,        \* diskChanges['added'] of the software profile (disk indices)
    pc,           \* where Gce.start / __addActiveNodes stands
    idx,          \* request the loop of __launch_instances is at
    req,          \* node_request_queue: one dict per node
    node,         \* Node objects: state, nics, instance mapping
    dbSession,    \* nodes present in the SQLAlchemy session
    dbCommitted,  \* nodes present after the last dbSession.commit()
    commits,      \* number of dbSession.commit() calls
    catalog,      \* SAN API catalog: drives registered per node
    cloud,        \* backend: state of the instance of each request
    diskCalls,    \* disks().insert() calls made, as <<request, disk>>
    queue,        \* JoinableQueue items
    unfinished,   \* JoinableQueue.unfinished_tasks
    worker,       \* greenlets running wait_worker
    deleteCalls,  \* requests for whose instance instances().delete() was called
    registered,   \* nodes handed to _pre_add_host
    events,       \* the nodes fire_provisioned_event was called for, in order
    warned,       \* the 'only %d of %d' warning was logged
    reconciled,   \* number of __post_launch_action runs
    abortedAt,    \* request at which the loop of __launch_instances raised
    raised,       \* exception leaving Gce.start ("none" when it returns)
    pending,      \* exception caught by __addActiveNodes, to be re-raised
    result,       \* nodes returned by Gce.start
    cleared,      \* nodes for which addHostApi.clear_session_node(s) ran
    nondefault,   \* disk indices whose storage adapter is not 'default'
    gevent,       \* TRUE: _gevent_blocking_call, FALSE: _blocking_call
    polling_interval, \* polling_interval of the poller, in seconds
    given,        \* the response the poller was called with
    response,     \* local 'response' of the poller
    status,       \* local 'status' of the poller
    attempt,      \* local 'attempt' of _gevent_blocking_call
    polls,        \* zoneOperations().get() calls made by the running call
    slept,        \* sleeps of the running call, in milliseconds
    returned,     \* value the poller returned
    calls,        \* number of calls of the poller
    log,          \* gateway calls made by the operation looked at, in order
    visited,      \* disk indices the loop of __process_added_disk_changes took
    persistent_disks, \* persistent_disks of __process_added_disk_changes
    config,       \* session['config']: image setting, networks, accelerators
    common_launch_args  \* common_launch_args of __get_common_launch_args

vars == <<count, added, pc, idx, req, node, dbSession, dbCommitted,
          commits, catalog, cloud, diskCalls, queue, unfinished,
          worker, deleteCalls, registered, events, warned, reconciled,
          abortedAt, raised, pending, result, cleared, nondefault,
          gevent, polling_interval, given, response, status, attempt,
          polls, slept, returned, calls, log, visited, persistent_disks,
          config, common_launch_args>>

\* The state of one call of __get_common_launch_args.
argsVars == <<config, common_launch_args>>

\* The state of one call of __process_added_disk_changes.
diskVars == <<visited, persistent_disks>>

\* The state of one call of the poller.
pollerVars == <<gevent, polling_interval, given, response, status, attempt,
                polls, slept, returned, calls>>

Requests == 1..count

Range(seq) == {seq[k] : k \in DOMAIN seq}

\* A response of the backend: an operation resource with its 'status', or an
\* empty body ("<empty>"). seq tells the replies of one call apart (0: handed
\* in by the caller).
Operation(st, n) == [status |-> st, seq |-> n]

\* Python's None, where a response is expected.
NoResponse == Operation("<none>", 0)

\* No call of the poller is under way.
PollerIdle ==
    /\ gevent = FALSE
    /\ polling_interval = 0
    /\ given = NoResponse
    /\ response = NoResponse
    /\ status = "<unset>"
    /\ attempt = 0
    /\ polls = 0
    /\ slept = <<>>
    /\ returned = NoResponse
    /\ calls = 0

\* No call of __process_added_disk_changes is looked at on its own.
DisksIdle ==
    /\ visited = <<>>
    /\ persistent_disks = <<>>

ImageModes == {"image", "image_family", "image_url"}

\* 'accelerators' not in session['config']
NoAccelerators == <<"<absent>">>

\* common_launch_args = {}
NoLaunchArgs == [network_interfaces |-> <<>>, accelerators |-> <<>>]

\* No call of __get_common_launch_args is looked at step by step: the
\* configuration is a valid one with the image given by URL.
ArgsIdle ==
    /\ config = [image |-> "image_url", networks |-> <<>>,
                 accelerators |-> NoAccelerators]
    /\ common_launch_args = NoLaunchArgs

----------------------------------------------------------------------------
\* __build_node_request_queue: dict(node=node, status='pending')
BuildNodeRequest == [status |-> "pending", instance_name |-> FALSE,
                     response |-> FALSE, message |-> NoMessage,
                     result |-> "none", poll |-> "none", hook |-> "none"]

\* __init_new_node: Node(state=NODE_STATE_LAUNCHING, ...)
InitNewNode == [state |-> "Launching", nics |-> 0, instance |-> FALSE]

Init ==
    /\ count \in 0..MaxBatch
    /\ added \in SUBSET (1..MaxDisk)
    /\ pc = "start"
    /\ idx = 0
    /\ req = <<>>
    /\ node = <<>>
    /\ dbSession = {}
    /\ dbCommitted = {}
    /\ commits = 0
    /\ catalog = <<>>
    /\ cloud = <<>>
    /\ diskCalls = {}
    /\ queue = <<>>
    /\ unfinished = 0
    /\ worker = <<>>
    /\ deleteCalls = {}
    /\ registered = {}
    /\ events = <<>>
    /\ warned = FALSE
    /\ reconciled = 0
    /\ abortedAt = 0
    /\ raised = "none"
    /\ pending = "none"
    /\ result = <<>>
    /\ cleared = {}
    /\ nondefault = {}
    /\ log = <<>>
    /\ PollerIdle
    /\ DisksIdle
    /\ ArgsIdle

----------------------------------------------------------------------------
\* __addActiveNodes, first part: __createNodes, dbSession.add_all,
\* dbSession.commit, __build_node_request_queue.
CreateNodes ==
    /\ pc = "start"
    /\ node' = [i \in Requests |-> InitNewNode]
    /\ dbSession' = Requests
    /\ dbCommitted' = Requests
    /\ commits' = commits + 1
    /\ req' = [i \in Requests |-> BuildNodeRequest]
    /\ catalog' = [i \in Requests |-> {}]
    /\ cloud' = [i \in Requests |-> "none"]
    /\ pc' = "common_args"
    /\ UNCHANGED <<cleared, nondefault, log>>
    /\ UNCHANGED pollerVars
    /\ UNCHANGED diskVars
    /\ UNCHANGED argsVars
    /\ UNCHANGED <<count, added, idx, diskCalls, queue,
                   unfinished, worker, deleteCalls, registered, events, warned,
                   reconciled, abortedAt, raised, pending, result>>

----------------------------------------------------------------------------
\* str(disk_index) for the keys of diskChanges['added'] (indices below 100).
Digits(n) == IF n < 10 THEN <<n>> ELSE <<n \div 10, n % 10>>

\* Python's order on the str keys, as sorted(diskChanges['added'].keys()) uses.
StrLess(a, b) ==
    LET da == Digits(a)
        db == Digits(b)
    IN  \/ da[1] < db[1]
        \/ /\ da[1] = db[1]
           /\ \/ Len(da) < Len(db)
              \/ /\ Len(da) = 2
                 /\ Len(db) = 2
                 /\ da[2] < db[2]

RECURSIVE SortedKeys(_)
SortedKeys(S) ==
    IF S = {} THEN <<>>
    ELSE LET m == CHOOSE x \in S : \A y \in S \ {x} : StrLess(x, y)
         IN  <<m>> \o SortedKeys(S \ {m})

\* __process_added_disk_changes over the sorted keys: a disk of a storage
\* adapter other than 'default' is passed over; the boot disk (index 1)
\* is only registered with the SAN API; for a data disk the create call is
\* made and then _blocking_call is handed None as its response, so that
\* response['status'] raises TypeError before addDrive is reached.
RECURSIVE DiskWalk(_, _, _)
DiskWalk(keys, drives, diskReply) ==
    IF keys = <<>>
    THEN [drives |-> drives, created |-> {}, exc |-> "none"]
    ELSE LET d == Head(keys)
         IN  IF d \in nondefault
             THEN DiskWalk(Tail(keys), drives, diskReply)
             ELSE IF d > 1
             THEN [drives |-> drives, created |-> {d},
                   exc |-> IF diskReply = "HttpError" THEN "HttpError"
                           ELSE "TypeError"]
             ELSE DiskWalk(Tail(keys), drives \cup {d}, diskReply)

ProcessAddedDiskChanges(diskReply) == DiskWalk(SortedKeys(added), {}, diskReply)

\* Variant of OnLaunchException: the exception is raised again without the
\* reconciliation.
OnLaunchExceptionNoCleanup == "reraising"

\* Variant of OnLaunchException: the exception is dropped and the batch goes
\* on to the reconciliation as if the launch phase had returned.
OnLaunchExceptionDropped == "post"

\* __addActiveNodes, 'except Exception' around __launch_instances: the
\* reconciliation runs first and the exception is raised again after it.
OnLaunchException == "except"

\* __gce_get_image_by_name / __gce_get_image_family_url: on HttpError the
\* handler calls self.__process_exception, which class Gce does not define,
\* so AttributeError leaves the handler instead of OperationFailed.
GceGetImage(reply) == IF reply = "HttpError" THEN "AttributeError" ELSE "none"

\* __get_common_launch_args: the image is looked up at the backend for the
\* 'image' and 'image_family' settings, and taken as given for 'image_url'.
GetCommonLaunchArgs(imageMode, reply) ==
    /\ pc = "common_args"
    /\ LET exc == IF imageMode = "image_url" THEN "none" ELSE GceGetImage(reply)
       IN  /\ IF exc = "none"
              THEN /\ pc' = "launch"
                   /\ idx' = 1
                   /\ pending' = pending
              ELSE /\ pc' = OnLaunchException
                   /\ idx' = idx
                   /\ pending' = exc
    /\ UNCHANGED <<cleared, nondefault, log>>
    /\ UNCHANGED pollerVars
    /\ UNCHANGED diskVars
    /\ UNCHANGED argsVars
    /\ UNCHANGED <<count, added, req, node, dbSession, dbCommitted,
                   commits, catalog, cloud, diskCalls, queue, unfinished,
                   worker, deleteCalls, registered, events, warned, reconciled,
                   abortedAt, raised, result>>

\* One iteration of the loop of __launch_instances: instance name, metadata,
\* persistent disks, instances().insert(), InstanceMapping.
LaunchRequest(out, diskReply) ==
    /\ pc = "launch"
    /\ idx \in Requests
    /\ LET i == idx
           dw == ProcessAddedDiskChanges(diskReply)
           exc == IF out = "metadata" THEN "Exception"
                  ELSE IF dw.exc # "none" THEN dw.exc
                  ELSE IF out = "create" THEN "HttpError"
                  ELSE "none"
       IN  /\ catalog' = IF out = "metadata" THEN catalog
                         ELSE [catalog EXCEPT ![i] = @ \cup dw.drives]
           /\ diskCalls' = IF out = "metadata" THEN diskCalls
                           ELSE diskCalls \cup {<<i, d>> : d \in dw.created}
           /\ IF exc = "none"
              THEN /\ req' = [req EXCEPT ![i].instance_name = TRUE,
                                         ![i].response = TRUE]
                   /\ cloud' = [cloud EXCEPT ![i] = "creating"]
                   /\ node' = [node EXCEPT ![i].instance = TRUE]
                   /\ idx' = idx + 1
                   /\ UNCHANGED <<pc, pending, abortedAt>>
              ELSE /\ req' = [req EXCEPT ![i].instance_name = TRUE]
                   /\ pc' = OnLaunchException
                   /\ pending' = exc
                   /\ abortedAt' = i
                   /\ UNCHANGED <<cloud, node, idx>>
    /\ UNCHANGED <<cleared, nondefault, log>>
    /\ UNCHANGED pollerVars
    /\ UNCHANGED diskVars
    /\ UNCHANGED argsVars
    /\ UNCHANGED <<count, added, dbSession, dbCommitted, commits,
                   queue, unfinished, worker, deleteCalls,
                   registered, events, warned, reconciled, raised, result>>

----------------------------------------------------------------------------
\* Variant of WorkerThreadCount: one greenlet per request.
WorkerThreadCountPerRequest(n) == n

\* worker_thread_count = 10 if launch_requests > 10 else launch_requests
WorkerThreadCount(n) == IF n > PoolLimit THEN PoolLimit ELSE n

\* Variant of MarkNodeRequestFailed: the status written is not 'error'.
MarkNodeRequestFailedWrongStatus(r, message) ==
    [r EXCEPT !.status = "pending",
              !.message = IF message # "" THEN message ELSE @]

\* __mark_node_request_failed: the message is stored only when it is not empty.
MarkNodeRequestFailed(r, message) ==
    [r EXCEPT !.status = "error",
              !.message = IF message # "" THEN message ELSE @]

\* gevent_wait_for_instance, after the poller returned: 'error' in result
GeventWaitForInstance(r, reply) ==
    [r EXCEPT !.status = IF reply \in {"DONE_error", "DONE_error_empty"}
                         THEN "error" ELSE "success",
              !.result = reply]

\* logmsg of __wait_for_instance: the errors of the operation joined by ', '
ErrorLogMsg(reply) == IF reply = "DONE_error" THEN "gce error" ELSE ""

\* str(exc) of an exception caught by __wait_for_instance
ExcText(reply) ==
    CASE reply = "exception" -> "exception text"
      [] reply = "HttpError" -> "Error deleting Compute Engine instance"
      [] OTHER -> ""

\* Variant of Submitted: every request is put on the queue twice.
RECURSIVE SubmittedTwice(_)
SubmittedTwice(i) ==
    IF i > count THEN <<>>
    ELSE (IF req[i].response THEN <<i, i>> ELSE <<>>) \o SubmittedTwice(i + 1)

\* Variant of LaunchLoopDone: the wait phase starts after the first request.
LaunchLoopDoneAfterFirst == idx > 1

\* 'for node_request in node_requests' of __launch_instances is exhausted;
\* self.__wait_for_instances(...) is the statement after the loop.
LaunchLoopDone == idx > count

\* __wait_for_instances up to queue.join(): spawn the greenlets, queue every
\* request that has a 'response'.
RECURSIVE Submitted(_)
Submitted(i) ==
    IF i > count THEN <<>>
    ELSE (IF req[i].response THEN <<i>> ELSE <<>>) \o Submitted(i + 1)

WaitForInstancesStart ==
    /\ pc = "launch"
    /\ LaunchLoopDone
    /\ worker' = [w \in 1..WorkerThreadCount(count) |->
                      [phase |-> "idle", cur |-> 0]]
    /\ queue' = Submitted(1)
    /\ unfinished' = Len(Submitted(1))
    /\ pc' = "join"
    /\ UNCHANGED <<cleared, nondefault, log>>
    /\ UNCHANGED pollerVars
    /\ UNCHANGED diskVars
    /\ UNCHANGED argsVars
    /\ UNCHANGED <<count, added, idx, req, node, dbSession,
                   dbCommitted, commits, catalog, cloud, diskCalls,
                   deleteCalls, registered, events, warned, reconciled,
                   abortedAt, raised, pending, result>>

Workers == DOMAIN worker

\* wait_worker: pending_node_request = queue.get(). The greenlets are
\* interchangeable; an item goes to the first of those waiting in get().
WorkerGet(w) ==
    /\ pc = "join"
    /\ worker[w].phase = "idle"
    /\ \A v \in Workers : v < w => worker[v].phase # "idle"
    /\ queue # <<>>
    /\ worker' = [worker EXCEPT ![w] = [phase |-> "poll", cur |-> Head(queue)]]
    /\ queue' = Tail(queue)
    /\ UNCHANGED <<cleared, nondefault, log>>
    /\ UNCHANGED pollerVars
    /\ UNCHANGED diskVars
    /\ UNCHANGED argsVars
    /\ UNCHANGED <<count, added, pc, idx, req, node, dbSession,
                   dbCommitted, commits, catalog, cloud, diskCalls,
                   unfinished, deleteCalls, registered, events, warned,
                   reconciled, abortedAt, raised, pending, result>>

\* Variant of TaskDone: the greenlet ends after its first request.
TaskDoneThenExit == [phase |-> "gone", cur |-> 0]

\* wait_worker's finally: queue.task_done(), then back to queue.get()
TaskDone == [phase |-> "idle", cur |-> 0]

\* Variant of Current: the request is kept in a place all greenlets share,
\* so each works on the request taken from the queue last.
CurrentShared(w) ==
    LET taken == {worker[v].cur : v \in DOMAIN worker} \ {0}
    IN  CHOOSE i \in taken : \A j \in taken : j <= i

\* wait_worker: the request a greenlet works on is the one it took from the
\* queue, held in its local pending_node_request.
Current(w) == worker[w].cur

PollReplies == {"RUNNING", "DONE", "DONE_error", "DONE_error_empty",
                "exception", "exception_empty"}

\* Variant of PollerLeavesLoop: the poller gives up on an operation that is
\* still running.
PollerLeavesLoopOnAnyReply(reply) == TRUE

\* _gevent_blocking_call in the wait phase: 'while status != 'DONE' and
\* response' is the only way out of the loop besides an exception; a reply
\* that is not Done is followed by the next poll, however many came before.
PollerLeavesLoop(reply) == reply # "RUNNING"

\* __wait_for_instance, first part: one poll of _gevent_blocking_call inside
\* gevent_wait_for_instance, and what follows a terminal reply or an exception.
WorkerPoll(w, reply) ==
    /\ pc = "join"
    /\ worker[w].phase = "poll"
    /\ LET i == Current(w)
       IN  CASE ~PollerLeavesLoop(reply) ->
                  UNCHANGED <<req, cloud, worker, unfinished>>
             [] reply = "DONE" ->
                  /\ req' = [req EXCEPT ![i] =
                        [GeventWaitForInstance(@, reply) EXCEPT !.poll = reply]]
                  /\ cloud' = [cloud EXCEPT ![i] = "running"]
                  /\ worker' = [worker EXCEPT ![w].phase = "hook"]
                  /\ UNCHANGED unfinished
             [] reply \in {"DONE_error", "DONE_error_empty"} ->
                  /\ req' = [req EXCEPT ![i] =
                        [MarkNodeRequestFailed(GeventWaitForInstance(@, reply),
                                               ErrorLogMsg(reply))
                         EXCEPT !.poll = reply]]
                  /\ cloud' = [cloud EXCEPT ![i] = "none"]
                  /\ worker' = [worker EXCEPT ![w] = TaskDone]
                  /\ unfinished' = unfinished - 1
             [] OTHER ->
                  /\ req' = [req EXCEPT ![i] =
                        [MarkNodeRequestFailed(@, ExcText(reply))
                         EXCEPT !.poll = reply]]
                  /\ worker' = [worker EXCEPT ![w] = TaskDone]
                  /\ unfinished' = unfinished - 1
                  /\ UNCHANGED cloud
    /\ UNCHANGED <<cleared, nondefault, log>>
    /\ UNCHANGED pollerVars
    /\ UNCHANGED diskVars
    /\ UNCHANGED argsVars
    /\ UNCHANGED <<count, added, pc, idx, node, dbSession,
                   dbCommitted, commits, catalog, diskCalls, queue,
                   deleteCalls, registered, events, warned, reconciled,
                   abortedAt, raised, pending, result>>

\* The instance is deleted at the backend by someone else after its create
\* operation ended and before the worker is done with the request.
ExternalDelete(i) ==
    /\ pc = "join"
    /\ i \in Requests
    /\ cloud[i] = "running"
    /\ \E w \in Workers : worker[w].cur = i /\ worker[w].phase \in {"hook", "delete"}
    /\ cloud' = [cloud EXCEPT ![i] = "none"]
    /\ UNCHANGED <<cleared, nondefault, log>>
    /\ UNCHANGED pollerVars
    /\ UNCHANGED diskVars
    /\ UNCHANGED argsVars
    /\ UNCHANGED <<count, added, pc, idx, req, node, dbSession,
                   dbCommitted, commits, catalog, diskCalls, queue,
                   unfinished, worker, deleteCalls, registered, events, warned,
                   reconciled, abortedAt, raised, pending, result>>

\* What gce_get_vm and the rest of the hook can meet, given the backend.
\* "noip": the instance description has an empty networkInterfaces list, so
\* __get_instance_internal_ip returns None; "nokey": the description lacks
\* 'networkInterfaces' or its first interface lacks 'networkIP', so
\* __get_instance_internal_ip raises KeyError.
HookOutcomes(i) ==
    IF cloud[i] = "running"
    THEN {"ok", "noip", "nokey", "get_httperror", "get_httperror_nofields",
          "get_exception", "pre_add_host"}
    ELSE {"404"}

\* gce_get_vm: None for 404 and for every other HttpError whose body is not
\* JSON or is the error document of the backend
GceGetVmIsNone(out) == out \in {"404", "get_httperror"}

\* gce_get_vm raises: what instances().get() raised was no HttpError, or it
\* was an HttpError other than 404 whose body is JSON without the fields
\* error.code and error.message, which the logging of the error reads
\* (KeyError or TypeError; only ValueError is caught)
GceGetVmRaises(out) == out \in {"get_exception", "get_httperror_nofields"}

\* __instance_post_launch raises
HookRaises(out) == GceGetVmRaises(out) \/ out \in {"nokey", "pre_add_host"}

\* Variant of InstancePostLaunch: the hook writes the state that only the
\* reconciliation is to write.
InstancePostLaunchProvisioned(n, out) ==
    IF GceGetVmIsNone(out) \/ GceGetVmRaises(out) THEN n
    ELSE IF out \in {"noip", "nokey"} THEN [n EXCEPT !.state = "Provisioned"]
    ELSE [n EXCEPT !.state = "Provisioned", !.nics = @ + 1]

\* Variant of InstancePostLaunch: node.state is set before the instance is
\* looked up.
InstancePostLaunchStateFirst(n, out) ==
    IF GceGetVmIsNone(out) \/ GceGetVmRaises(out) \/ out \in {"noip", "nokey"}
    THEN [n EXCEPT !.state = "Installed"]
    ELSE [n EXCEPT !.state = "Installed", !.nics = @ + 1]

\* __instance_post_launch on the Node object
InstancePostLaunch(n, out) ==
    IF GceGetVmIsNone(out) \/ GceGetVmRaises(out) THEN n
    ELSE IF out \in {"noip", "nokey"} THEN [n EXCEPT !.state = "Installed"]
    ELSE [n EXCEPT !.state = "Installed", !.nics = @ + 1]

\* Variant of AfterHook: no __deleteInstance after a raising hook.
AfterHookNoDelete(w, out) == [phase |-> "idle", cur |-> 0]

\* __wait_for_instance after the hook: a raising hook is followed by
\* __deleteInstance, anything else ends the work on the request.
AfterHook(w, out) ==
    IF HookRaises(out) THEN [phase |-> "delete", cur |-> worker[w].cur]
    ELSE TaskDone

\* __wait_for_instance, second part: the hook after a successful launch; when
\* it raises the request is marked failed and the instance is to be deleted.
WorkerPostLaunch(w, out) ==
    /\ pc = "join"
    /\ worker[w].phase = "hook"
    /\ LET i == Current(w)
       IN  /\ out \in HookOutcomes(i)
           /\ node' = [node EXCEPT ![i] = InstancePostLaunch(@, out)]
           /\ registered' = IF out = "ok" THEN registered \cup {i} ELSE registered
           /\ req' = IF HookRaises(out)
                     THEN [req EXCEPT ![i] =
                              [MarkNodeRequestFailed(@, "post-launch action failed")
                               EXCEPT !.hook = out]]
                     ELSE [req EXCEPT ![i].hook = out]
           /\ worker' = [worker EXCEPT ![w] = AfterHook(w, out)]
           /\ unfinished' = IF AfterHook(w, out) = TaskDone
                             THEN unfinished - 1 ELSE unfinished
    /\ UNCHANGED <<cleared, nondefault, log>>
    /\ UNCHANGED pollerVars
    /\ UNCHANGED diskVars
    /\ UNCHANGED argsVars
    /\ UNCHANGED <<count, added, pc, idx, dbSession, dbCommitted,
                   commits, catalog, cloud, diskCalls, queue,
                   deleteCalls, events, warned, reconciled, abortedAt, raised,
                   pending, result>>

\* What instances().delete() can answer, given the backend.
DeleteReplies(i) ==
    IF cloud[i] = "none" THEN {"404"}
    ELSE {"ok", "HttpError", "exception"}

\* Variant of DeleteInstanceRaises: a 404 is not told from the other errors.
DeleteInstanceRaisesOn404(reply) == reply # "ok"

\* __deleteInstance: 404 is logged, any other HttpError becomes CommandFailed
DeleteInstanceRaises(reply) == reply \notin {"ok", "404"}

\* __wait_for_instance after __deleteInstance: what the delete raises is
\* caught by the outer 'except Exception', so the greenlet goes on to
\* task_done() and the next queue.get() in every case.
AfterDelete(reply) == TaskDone

\* __wait_for_instance, third part: __deleteInstance after a failed hook; what
\* it raises is caught by the outer handler, which marks the request failed.
WorkerDelete(w, reply) ==
    /\ pc = "join"
    /\ worker[w].phase = "delete"
    /\ LET i == Current(w)
       IN  /\ reply \in DeleteReplies(i)
           /\ deleteCalls' = deleteCalls \cup {i}
           /\ cloud' = IF reply = "ok" THEN [cloud EXCEPT ![i] = "none"]
                       ELSE cloud
           /\ req' = IF DeleteInstanceRaises(reply)
                     THEN [req EXCEPT ![i] =
                              MarkNodeRequestFailed(@, ExcText(reply))]
                     ELSE req
           /\ worker' = [worker EXCEPT ![w] = AfterDelete(reply)]
           /\ unfinished' = IF AfterDelete(reply) = TaskDone
                             THEN unfinished - 1 ELSE unfinished
    /\ UNCHANGED <<cleared, nondefault, log>>
    /\ UNCHANGED pollerVars
    /\ UNCHANGED diskVars
    /\ UNCHANGED argsVars
    /\ UNCHANGED <<count, added, pc, idx, node, dbSession,
                   dbCommitted, commits, catalog, diskCalls, queue,
                   registered, events, warned, reconciled, abortedAt, raised,
                   pending, result>>

----------------------------------------------------------------------------
\* Variant of WaitForInstancesRaises: CommandFailed only when no request
\* succeeded.
WaitForInstancesRaisesWhenAllFailed ==
    LET errs == {i \in Requests : req[i].status = "error"}
    IN  IF errs = {} \/ errs # Requests THEN "none" ELSE "CommandFailed"

\* __wait_for_instances after queue.join(): the first request with status
\* 'error' has its message read (KeyError when the key was never set) and
\* CommandFailed is raised.
WaitForInstancesRaises ==
    LET errs == {i \in Requests : req[i].status = "error"}
    IN  IF errs = {} THEN "none"
        ELSE LET first == CHOOSE i \in errs : \A j \in errs : i <= j
             IN  IF req[first].message = NoMessage THEN "KeyError"
                 ELSE "CommandFailed"

\* Variant of JoinReturns: __wait_for_instances goes on without queue.join().
JoinReturnsWithoutJoin ==
    /\ pc = "join"
    /\ pending' = WaitForInstancesRaises
    /\ pc' = IF WaitForInstancesRaises = "none" THEN "post"
             ELSE OnLaunchException
    /\ UNCHANGED <<cleared, nondefault, log>>
    /\ UNCHANGED pollerVars
    /\ UNCHANGED diskVars
    /\ UNCHANGED argsVars
    /\ UNCHANGED <<count, added, idx, req, node, dbSession,
                   dbCommitted, commits, catalog, cloud, diskCalls,
                   queue, unfinished, worker, deleteCalls, registered, events,
                   warned, reconciled, abortedAt, raised, result>>

\* queue.join() returns once every queued request was marked done; then the
\* check for failed requests decides how __launch_instances ends.
JoinReturns ==
    /\ pc = "join"
    /\ unfinished = 0
    /\ pending' = WaitForInstancesRaises
    /\ pc' = IF WaitForInstancesRaises = "none" THEN "post"
             ELSE OnLaunchException
    /\ UNCHANGED <<cleared, nondefault, log>>
    /\ UNCHANGED pollerVars
    /\ UNCHANGED diskVars
    /\ UNCHANGED argsVars
    /\ UNCHANGED <<count, added, idx, req, node, dbSession,
                   dbCommitted, commits, catalog, cloud, diskCalls,
                   queue, unfinished, worker, deleteCalls, registered, events,
                   warned, reconciled, abortedAt, raised, result>>

\* Variant of NeedsCleanup: only requests marked 'error' are cleaned up.
NeedsCleanupOnlyError(r) == r.status = "error"

\* __post_launch_action: node_request['status'] != 'success'
NeedsCleanup(r) == r.status # "success"

\* __node_cleanup / __process_deleted_disk_changes: the drives left in the
\* catalog for a node; deleteDrive is called for the drives of the 'default'
\* storage adapter and the others are skipped.
NodeCleanup(drives) == drives \cap nondefault

\* Variant of WarnsPartialSuccess: a batch without any success is warned
\* about as well.
WarnsPartialSuccessOrNone(completed, requested) == completed < requested

\* if completed and completed < count: self._logger.warning(warnmsg)
WarnsPartialSuccess(completed, requested) ==
    completed # 0 /\ completed < requested

\* Variant of FireProvisionedEvent: the event is fired twice for a node.
FireProvisionedEventTwice(i) == <<i, i>>

\* self.fire_provisioned_event(node_request['node'])
FireProvisionedEvent(i) == <<i>>

\* The events of the loop of __post_launch_action from request i on.
RECURSIVE Fired(_)
Fired(i) ==
    IF i > count THEN <<>>
    ELSE (IF NeedsCleanup(req[i]) THEN <<>> ELSE FireProvisionedEvent(i))
             \o Fired(i + 1)

RECURSIVE Launched(_)
Launched(i) ==
    IF i > count THEN <<>>
    ELSE (IF NeedsCleanup(req[i]) THEN <<>> ELSE <<i>>) \o Launched(i + 1)

\* __post_launch_action, called by __addActiveNodes after __launch_instances
\* returned (pc = "post") or raised (pc = "except").
PostLaunchAction ==
    /\ pc \in {"post", "except"}
    /\ LET failed == {i \in Requests : NeedsCleanup(req[i])}
           completed == Len(Launched(1))
       IN  /\ catalog' = [i \in Requests |->
                             IF i \in failed THEN NodeCleanup(catalog[i])
                             ELSE catalog[i]]
           /\ dbSession' = dbSession \ failed
           /\ dbCommitted' = dbSession \ failed
           /\ commits' = commits + 1
           /\ node' = [i \in Requests |->
                          IF i \in failed THEN node[i]
                          ELSE [node[i] EXCEPT !.state = "Provisioned"]]
           /\ events' = events \o Fired(1)
           /\ warned' = WarnsPartialSuccess(completed, count)
           /\ result' = IF pc = "post" THEN Launched(1) ELSE <<>>
    /\ reconciled' = reconciled + 1
    /\ pc' = IF pc = "post" THEN "returning" ELSE "reraising"
    /\ cleared' = cleared \cup {i \in Requests : NeedsCleanup(req[i])}
    /\ UNCHANGED <<nondefault, log>>
    /\ UNCHANGED pollerVars
    /\ UNCHANGED diskVars
    /\ UNCHANGED argsVars
    /\ UNCHANGED <<count, added, idx, req, cloud, diskCalls,
                   queue, unfinished, worker, deleteCalls,
                   registered, abortedAt, raised, pending>>

\* Gce.start returns the nodes (after addHostApi.clear_session_nodes), or the
\* exception caught by __addActiveNodes is raised again.
StartEnds ==
    /\ pc \in {"returning", "reraising"}
    /\ raised' = IF pc = "reraising" THEN pending ELSE "none"
    /\ pc' = "done"
    /\ cleared' = IF pc = "returning" THEN cleared \cup Range(result)
                  ELSE cleared
    /\ UNCHANGED <<nondefault, log>>
    /\ UNCHANGED pollerVars
    /\ UNCHANGED diskVars
    /\ UNCHANGED argsVars
    /\ UNCHANGED <<count, added, idx, req, node, dbSession,
                   dbCommitted, commits, catalog, cloud, diskCalls,
                   queue, unfinished, worker, deleteCalls, registered, events,
                   warned, reconciled, abortedAt, pending, result>>

----------------------------------------------------------------------------
Next ==
    \/ CreateNodes
    \/ \E imageMode \in ImageModes, reply \in {"ok", "HttpError"} :
          GetCommonLaunchArgs(imageMode, reply)
    \/ \E out \in {"ok", "metadata", "create"}, diskReply \in {"ok", "HttpError"} :
          LaunchRequest(out, diskReply)
    \/ WaitForInstancesStart
    \/ \E w \in Workers : WorkerGet(w)
    \/ \E w \in Workers, reply \in PollReplies : WorkerPoll(w, reply)
    \/ \E i \in Requests : ExternalDelete(i)
    \/ \E w \in Workers,
          out \in {"ok", "noip", "nokey", "get_httperror",
                   "get_httperror_nofields", "get_exception",
                   "pre_add_host", "404"} : WorkerPostLaunch(w, out)
    \/ \E w \in Workers,
          reply \in {"ok", "404", "HttpError", "exception"} :
          WorkerDelete(w, reply)
    \/ JoinReturns
    \/ PostLaunchAction
    \/ StartEnds

Spec == Init /\ [][Next]_vars

\* The batch with a caller that goes on when it can, greenlets that run when
\* they are ready, and polling, hook and delete calls that all come to an end
\* (in any order and with any outcome).
LiveFairness ==
    /\ WF_vars(WaitForInstancesStart)
    /\ WF_vars(\E w \in Workers : WorkerGet(w))
    /\ WF_vars(\E w \in Workers, reply \in PollReplies : WorkerPoll(w, reply))
    /\ WF_vars(\E w \in Workers,
                  out \in {"ok", "noip", "nokey", "get_httperror",
                           "get_httperror_nofields", "get_exception",
                           "pre_add_host", "404"} :
                  WorkerPostLaunch(w, out))
    /\ WF_vars(\E w \in Workers,
                  reply \in {"ok", "404", "HttpError", "exception"} :
                  WorkerDelete(w, reply))
    /\ WF_vars(JoinReturns)

LiveSpec == Init /\ [][Next]_vars /\ LiveFairness

----------------------------------------------------------------------------
\* The wait phase of batches larger than the greenlet pool: the state of
\* __launch_instances once every instance of the batch has been submitted,
\* for a software profile without disks, and from there a backend that ends
\* the create operations without error in the order they were submitted (a
\* poll of a later one is answered RUNNING until then) and a cluster
\* registration that is served in that order too.

PoolInit ==
    /\ count \in 0..MaxPoolBatch
    /\ added = {}
    /\ pc = "launch"
    /\ idx = count + 1
    /\ req = [i \in Requests |->
                 [BuildNodeRequest EXCEPT !.instance_name = TRUE,
                                          !.response = TRUE]]
    /\ node = [i \in Requests |-> [InitNewNode EXCEPT !.instance = TRUE]]
    /\ dbSession = Requests
    /\ dbCommitted = Requests
    /\ commits = 1
    /\ catalog = [i \in Requests |-> {}]
    /\ cloud = [i \in Requests |-> "creating"]
    /\ diskCalls = {}
    /\ queue = <<>>
    /\ unfinished = 0
    /\ worker = <<>>
    /\ deleteCalls = {}
    /\ registered = {}
    /\ events = <<>>
    /\ warned = FALSE
    /\ reconciled = 0
    /\ abortedAt = 0
    /\ raised = "none"
    /\ pending = "none"
    /\ result = <<>>
    /\ cleared = {}
    /\ nondefault = {}
    /\ log = <<>>
    /\ PollerIdle
    /\ DisksIdle
    /\ ArgsIdle

\* The create operations submitted before that of request i have ended.
EarlierPolled(i) == \A j \in 1..(i - 1) : req[j].poll # "none"

\* The registrations asked for before that of request i have been served.
EarlierHooked(i) == \A j \in 1..(i - 1) : req[j].hook # "none"

PoolNext ==
    \/ WaitForInstancesStart
    \/ \E w \in Workers : WorkerGet(w)
    \/ \E w \in Workers : EarlierPolled(worker[w].cur) /\ WorkerPoll(w, "DONE")
    \/ \E w \in Workers : WorkerPoll(w, "RUNNING")
    \/ \E w \in Workers :
          EarlierHooked(worker[w].cur) /\ WorkerPostLaunch(w, "ok")
    \/ JoinReturns
    \/ PostLaunchAction
    \/ StartEnds

PoolSpec == PoolInit /\ [][PoolNext]_vars

\* The same wait phase with a first request that can fail: its polling can
\* raise, and its hook can raise and be followed by __deleteInstance. A
\* greenlet whose queue.get() has an item runs before the answer to a call of
\* another greenlet is delivered (a greenlet runs until it blocks).

\* No greenlet sits in queue.get() while the queue has an item.
GreenletsAtWork ==
    queue = <<>> \/ \A w \in Workers : worker[w].phase # "idle"

\* The registrations asked for before that of request i have been served, or
\* their requests failed.
EarlierServed(i) ==
    \A j \in 1..(i - 1) : req[j].hook # "none" \/ req[j].status = "error"

\* gevent_wait_for_instance of some greenlet returns or raises.
PollingEnds ==
    /\ GreenletsAtWork
    /\ \E w \in Workers :
        \/ EarlierPolled(worker[w].cur) /\ WorkerPoll(w, "DONE")
        \/ worker[w].cur = 1 /\ WorkerPoll(w, "exception")

\* __instance_post_launch of some greenlet returns or raises.
HookEnds ==
    /\ GreenletsAtWork
    /\ \E w \in Workers :
        \/ EarlierServed(worker[w].cur) /\ WorkerPostLaunch(w, "ok")
        \/ worker[w].cur = 1 /\ WorkerPostLaunch(w, "pre_add_host")

\* __deleteInstance of some greenlet returns or raises.
DeleteEnds ==
    /\ GreenletsAtWork
    /\ \E w \in Workers, reply \in {"ok", "HttpError"} : WorkerDelete(w, reply)

DrainNext ==
    \/ WaitForInstancesStart
    \/ \E w \in Workers : WorkerGet(w)
    \/ PollingEnds
    \/ \E w \in Workers : WorkerPoll(w, "RUNNING")
    \/ HookEnds
    \/ DeleteEnds
    \/ JoinReturns
    \/ PostLaunchAction
    \/ StartEnds

\* The caller goes on when it can; gevent runs every greenlet that is ready
\* (the hub switches to a greenlet whose queue.get() has an item); every
\* polling call, hook call and delete call comes to an end.
DrainFairness ==
    /\ WF_vars(WaitForInstancesStart)
    /\ WF_vars(\E w \in Workers : WorkerGet(w))
    /\ WF_vars(PollingEnds)
    /\ WF_vars(HookEnds)
    /\ WF_vars(DeleteEnds)
    /\ WF_vars(JoinReturns)

DrainSpec == PoolInit /\ [][DrainNext]_vars /\ DrainFairness

----------------------------------------------------------------------------
\* The Operation Poller: _gevent_blocking_call and _blocking_call.

\* Values of the 'sleeptime' setting explored (seconds).
PollingIntervals == {1, 2, DEFAULT_SLEEP_TIME}

\* The truth value Python gives a response: None and an empty body are false.
Truthy(r) == r.status \notin {"<none>", "<empty>"}

\* What the callers hand to the poller: the operation that an insert or reset
\* call returned, in any of its states; __process_added_disk_changes hands
\* None to _blocking_call.
GivenResponses(g) ==
    {Operation(st, 0) : st \in {"PENDING", "RUNNING", "DONE"}}
        \cup (IF g THEN {} ELSE {NoResponse})

PollerInit ==
    /\ gevent \in BOOLEAN
    /\ polling_interval \in PollingIntervals
    /\ given \in GivenResponses(gevent)
    /\ response = given
    /\ status = "<unset>"
    /\ attempt = 0
    /\ polls = 0
    /\ slept = <<>>
    /\ returned = NoResponse
    /\ calls = 1
    /\ pc = "call"
    /\ raised = "none"
    /\ count = 0
    /\ added = {}
    /\ idx = 0
    /\ req = <<>>
    /\ node = <<>>
    /\ dbSession = {}
    /\ dbCommitted = {}
    /\ commits = 0
    /\ catalog = <<>>
    /\ cloud = <<>>
    /\ diskCalls = {}
    /\ queue = <<>>
    /\ unfinished = 0
    /\ worker = <<>>
    /\ deleteCalls = {}
    /\ registered = {}
    /\ events = <<>>
    /\ warned = FALSE
    /\ reconciled = 0
    /\ abortedAt = 0
    /\ pending = "none"
    /\ result = <<>>
    /\ cleared = {}
    /\ nondefault = {}
    /\ log = <<>>
    /\ DisksIdle
    /\ ArgsIdle

\* What is not touched by the poller.
pollerFrame == <<count, added, idx, req, node, dbSession, dbCommitted,
                 commits, catalog, cloud, diskCalls, queue, unfinished,
                 worker, deleteCalls, registered, events, warned, reconciled,
                 abortedAt, pending, result, cleared, nondefault, log,
                 visited, persistent_disks, config, common_launch_args>>

\* status = response['status'] on entry: None cannot be subscripted
SubscriptRaises(resp) == IF resp = NoResponse THEN "TypeError" ELSE "none"

\* status = response['status']; attempt = 0
BlockingCallEnters ==
    /\ pc = "call"
    /\ IF SubscriptRaises(response) # "none"
       THEN /\ pc' = "raised"
            /\ raised' = SubscriptRaises(response)
            /\ UNCHANGED <<status, attempt>>
       ELSE /\ pc' = "loop"
            /\ status' = response.status
            /\ attempt' = 0
            /\ UNCHANGED raised
    /\ UNCHANGED <<gevent, polling_interval, given, response, polls, slept,
                   returned, calls>>
    /\ UNCHANGED pollerFrame

\* Variant of LoopCondition: the status is polled before it is looked at.
LoopConditionPollFirst ==
    polls = 0 \/ (status # "DONE" /\ Truthy(response))

\* Variant of LoopCondition: the status is polled once at most.
LoopConditionOnce == status # "DONE" /\ Truthy(response) /\ polls = 0

\* while status != 'DONE' and response:
LoopCondition == status # "DONE" /\ Truthy(response)

RECURSIVE Pow2(_)
Pow2(n) == IF n = 0 THEN 1 ELSE 2 * Pow2(n - 1)

\* Variant of Temp: the delay is not limited by max_sleep_time.
TempUncapped(interval, att) == interval * 1000 * Pow2(att)

\* temp = min(max_sleep_time, (polling_interval * 1000) * 2 ** attempt)
Temp(interval, att) ==
    IF interval * 1000 * Pow2(att) < max_sleep_time
    THEN interval * 1000 * Pow2(att)
    ELSE max_sleep_time

\* Variant of RandomDraw: the random part is drawn from 0..temp.
RandomDrawWide(temp, k) == (temp * k) \div 2

\* random.randint(0, temp / 2): the lowest, the middle and the highest draw
RandomDraw(temp, k) == ((temp \div 2) * k) \div 2

\* Variant of SleepTime: the backoff is used for the first sleep as well.
SleepTimeBackoffOnly(g, interval, att, k) ==
    IF g THEN Temp(interval, att) \div 2 + RandomDraw(Temp(interval, att), k)
    ELSE interval * 1000

\* sleeptime, in milliseconds: _gevent_blocking_call sleeps 10 s after the
\* first poll and (temp / 2 + random.randint(0, temp / 2)) ms after the later
\* ones; _blocking_call sleeps polling_interval seconds every time.
SleepTime(g, interval, att, k) ==
    IF g
    THEN IF att > 0
         THEN Temp(interval, att) \div 2 + RandomDraw(Temp(interval, att), k)
         ELSE 10 * 1000
    ELSE interval * 1000

\* What zoneOperations().get().execute() can raise: an HTTP error status or
\* a transport error.
GatewayErrors == {"HttpError", "OSError"}

PollReplyKinds == {"PENDING", "RUNNING", "DONE", "<empty>"} \cup GatewayErrors

\* Variant of PollerRaises: the poller wraps what the gateway raised.
PollerRaisesWrapped(exc) == "CommandFailed"

\* The loop has no try: what execute() raises leaves the poller as it is.
PollerRaises(exc) == exc

\* One turn of the loop: zoneOperations().get().execute(), the new status,
\* the sleep when the operation is not done, attempt += 1.
PollOnce(reply, k) ==
    /\ pc = "loop"
    /\ LoopCondition
    /\ polls < MaxPolls
    /\ polls' = polls + 1
    /\ IF reply \in GatewayErrors
       THEN /\ pc' = "raised"
            /\ raised' = PollerRaises(reply)
            /\ UNCHANGED <<response, status, slept, attempt>>
       ELSE /\ response' = Operation(reply, polls + 1)
            /\ status' = IF Truthy(response') THEN reply ELSE status
            /\ slept' = IF Truthy(response') /\ reply # "DONE"
                        THEN Append(slept, SleepTime(gevent, polling_interval,
                                                     attempt, k))
                        ELSE slept
            /\ attempt' = IF gevent THEN attempt + 1 ELSE attempt
            /\ UNCHANGED <<pc, raised>>
    /\ UNCHANGED <<gevent, polling_interval, given, returned, calls>>
    /\ UNCHANGED pollerFrame

\* return response
PollReturns ==
    /\ pc = "loop"
    /\ ~LoopCondition
    /\ returned' = response
    /\ pc' = "returned"
    /\ UNCHANGED <<gevent, polling_interval, given, response, status, attempt,
                   polls, slept, calls, raised>>
    /\ UNCHANGED pollerFrame

\* The caller hands the operation it got back to the poller once more.
PollAgain ==
    /\ pc = "returned"
    /\ Truthy(returned)
    /\ calls < MaxCalls
    /\ calls' = calls + 1
    /\ given' = Operation(returned.status, 0)
    /\ response' = Operation(returned.status, 0)
    /\ status' = "<unset>"
    /\ attempt' = 0
    /\ polls' = 0
    /\ slept' = <<>>
    /\ returned' = NoResponse
    /\ pc' = "call"
    /\ UNCHANGED <<gevent, polling_interval, raised>>
    /\ UNCHANGED pollerFrame

PollerNext ==
    \/ BlockingCallEnters
    \/ \E reply \in PollReplyKinds, k \in 0..2 : PollOnce(reply, k)
    \/ PollReturns
    \/ PollAgain

PollerSpec == PollerInit /\ [][PollerNext]_vars

----------------------------------------------------------------------------
\* The Disk Provisioner: one call of __process_added_disk_changes, for the
\* first request of a batch of one.

\* Disk indices the storage catalog can report as added.
DiskIndices == {1, 2, 10, 11}

DiskInit ==
    /\ added \in SUBSET DiskIndices
    /\ nondefault \in SUBSET added
    /\ count = 1
    /\ pc = "disks"
    /\ idx = 1
    /\ req = <<[BuildNodeRequest EXCEPT !.instance_name = TRUE]>>
    /\ node = <<InitNewNode>>
    /\ dbSession = {1}
    /\ dbCommitted = {1}
    /\ commits = 1
    /\ catalog = <<{}>>
    /\ cloud = <<"none">>
    /\ diskCalls = {}
    /\ queue = <<>>
    /\ unfinished = 0
    /\ worker = <<>>
    /\ deleteCalls = {}
    /\ registered = {}
    /\ events = <<>>
    /\ warned = FALSE
    /\ reconciled = 0
    /\ abortedAt = 0
    /\ raised = "none"
    /\ pending = "none"
    /\ result = <<>>
    /\ cleared = {}
    /\ log = <<>>
    /\ PollerIdle
    /\ DisksIdle
    /\ ArgsIdle

\* What is not touched by __process_added_disk_changes.
diskFrame == <<count, added, nondefault, req, node, dbSession, dbCommitted,
               commits, cloud, queue, unfinished, worker, deleteCalls,
               registered, events, warned, reconciled, abortedAt, pending,
               result, cleared, config, common_launch_args>>

\* Variant of IsSkipped: the storage adapter of a disk is not looked at.
IsSkippedNever(d) == FALSE

\* if storageAdapter != 'default': continue
IsSkipped(d) == d \in nondefault

\* The response __process_added_disk_changes hands to _blocking_call: the
\* literal None (what disks().insert().execute() returned is dropped by
\* __create_persistent_disk).
DiskPollResponse == NoResponse

\* One turn of the loop over sorted(diskChanges['added'].keys()).
DiskIteration(createReply) ==
    /\ pc = "disks"
    /\ idx \in DOMAIN SortedKeys(added)
    /\ LET d == SortedKeys(added)[idx]
           exc == IF createReply = "HttpError" THEN "HttpError"
                  ELSE SubscriptRaises(DiskPollResponse)
       IN  /\ visited' = Append(visited, d)
           /\ IF IsSkipped(d)
              THEN /\ idx' = idx + 1
                   /\ UNCHANGED <<pc, raised, log, diskCalls, catalog,
                                  persistent_disks>>
              ELSE IF d > 1
              THEN /\ diskCalls' = diskCalls \cup {<<1, d>>}
                   /\ log' = Append(log, [call |-> "disks.insert", node |-> d,
                                          reply |-> createReply])
                   /\ IF exc # "none"
                      THEN /\ pc' = "raised"
                           /\ raised' = exc
                           /\ UNCHANGED <<idx, catalog, persistent_disks>>
                      ELSE /\ persistent_disks' =
                                 Append(persistent_disks,
                                        [disk |-> d, link |-> TRUE])
                           /\ catalog' = [catalog EXCEPT ![1] = @ \cup {d}]
                           /\ idx' = idx + 1
                           /\ UNCHANGED <<pc, raised>>
              ELSE /\ persistent_disks' =
                         Append(persistent_disks, [disk |-> d, link |-> FALSE])
                   /\ catalog' = [catalog EXCEPT ![1] = @ \cup {d}]
                   /\ idx' = idx + 1
                   /\ UNCHANGED <<pc, raised, log, diskCalls>>
    /\ UNCHANGED diskFrame
    /\ UNCHANGED pollerVars

\* return persistent_disks
DiskReturns ==
    /\ pc = "disks"
    /\ idx > Len(SortedKeys(added))
    /\ pc' = "returned"
    /\ UNCHANGED <<idx, raised, log, diskCalls, catalog, visited,
                   persistent_disks>>
    /\ UNCHANGED diskFrame
    /\ UNCHANGED pollerVars

DiskNext ==
    \/ \E createReply \in {"ok", "HttpError"} : DiskIteration(createReply)
    \/ DiskReturns

DiskSpec == DiskInit /\ [][DiskNext]_vars

----------------------------------------------------------------------------
\* __get_common_launch_args, step by step: image, network interfaces,
\* accelerators. A setting string is the sequence of its characters.

\* Longest 'networks' list of the configuration.
MaxNetworks == 2

\* str.startswith
StartsWith(s, prefix) ==
    /\ Len(s) >= Len(prefix)
    /\ SubSeq(s, 1, Len(prefix)) = prefix

\* str.lower, on the letters the settings below use
Lower(s) ==
    [i \in DOMAIN s |->
        CASE s[i] = "E" -> "e"
          [] s[i] = "N" -> "n"
          [] s[i] = "P" -> "p"
          [] OTHER -> s[i]]

\* str.split(sep): the pieces between the separators, empty pieces included
RECURSIVE SplitWalk(_, _, _, _)
SplitWalk(s, sep, piece, pieces) ==
    IF s = <<>>
    THEN Append(pieces, piece)
    ELSE IF Head(s) = sep
         THEN SplitWalk(Tail(s), sep, <<>>, Append(pieces, piece))
         ELSE SplitWalk(Tail(s), sep, Append(piece, Head(s)), pieces)
Split(s, sep) == SplitWalk(s, sep, <<>>, <<>>)

\* str.strip
RECURSIVE Strip(_)
Strip(s) ==
    IF s = <<>> THEN s
    ELSE IF Head(s) = " " THEN Strip(Tail(s))
    ELSE IF s[Len(s)] = " " THEN Strip(SubSeq(s, 1, Len(s) - 1))
    ELSE s

Digits10 == <<"0", "1", "2", "3", "4", "5", "6", "7", "8", "9">>

\* int(count): ValueError unless the text is a run of digits (blanks around it
\* are allowed)
IntRaises(text) ==
    IF Strip(text) # <<>> /\
       \A i \in DOMAIN Strip(text) :
           \E v \in DOMAIN Digits10 : Digits10[v] = Strip(text)[i]
    THEN "none"
    ELSE "ValueError"

RECURSIVE IntWalk(_, _)
IntWalk(s, n) ==
    IF s = <<>> THEN n
    ELSE IntWalk(Tail(s),
                 n * 10 + (CHOOSE v \in DOMAIN Digits10 :
                               Digits10[v] = Head(s)) - 1)
IntOf(text) == IntWalk(Strip(text), 0)

\* network_args is None
NoArgs == <<"<None>">>

\* The empty dict
EmptyFlags == [k \in {} |-> TRUE]

\* get_network_flags: the flags of one network entry; the last one of a kind
\* wins, an unknown one raises ConfigurationError.
RECURSIVE FlagsWalk(_, _)
FlagsWalk(network_arg_list, flags) ==
    IF network_arg_list = <<>>
    THEN [exc |-> "none", flags |-> flags]
    ELSE LET network_arg == Head(network_arg_list)
             rest == Tail(network_arg_list)
         IN  IF network_arg = <<>>
             THEN FlagsWalk(rest, flags)
             ELSE IF StartsWith(Lower(network_arg), <<"e", "x", "t">>)
             THEN FlagsWalk(rest, ("external" :> TRUE) @@ flags)
             ELSE IF StartsWith(Lower(network_arg), <<"n", "o", "e", "x", "t">>)
             THEN FlagsWalk(rest, ("external" :> FALSE) @@ flags)
             ELSE IF StartsWith(Lower(network_arg), <<"p", "r", "i">>)
             THEN FlagsWalk(rest, ("primary" :> TRUE) @@ flags)
             ELSE [exc |-> "ConfigurationError", flags |-> flags]
get_network_flags(network_args) ==
    IF network_args = NoArgs
    THEN [exc |-> "none", flags |-> EmptyFlags]
    ELSE FlagsWalk(Split(network_args, ";"), EmptyFlags)

\* is_network_flag_set
is_network_flag_set(network_flags, flag, default) ==
    IF flag \in DOMAIN network_flags THEN network_flags[flag] ELSE default

\* __get_network_interface: the interface of one entry, without access
\* configuration
GetNetworkInterface(network) ==
    [network |-> network.network_def, accessConfigs |-> FALSE]

\* set_external_network_access
set_external_network_access(network_interface) ==
    [network_interface EXCEPT !.accessConfigs = TRUE]

\* enable_external_network_access: a single network gets external access
\* when it is 'default' or its external flag is not switched off.
enable_external_network_access(networks, network_interfaces) ==
    IF Len(networks) # 1 \/ network_interfaces = <<>>
    THEN network_interfaces
    ELSE IF \/ networks[1].network_def = <<"default">>
            \/ is_network_flag_set(
                   get_network_flags(networks[1].network_args).flags,
                   "external", TRUE)
         THEN [network_interfaces EXCEPT
                   ![1] = set_external_network_access(@)]
         ELSE network_interfaces

\* primary_intfc = None
NoPrimary == 0

\* Variant of AlreadyPrimary: a second primary interface is let through.
AlreadyPrimaryNever(primary_intfc) == FALSE

\* if primary_intfc is not None
AlreadyPrimary(primary_intfc) == primary_intfc # NoPrimary

\* The loop of __get_network_interface_definitions over the entries from
\* position i on.
RECURSIVE InterfacesWalk(_, _, _, _)
InterfacesWalk(networks, i, primary_intfc, network_interfaces) ==
    IF i > Len(networks)
    THEN [exc |-> "none", network_interfaces |-> network_interfaces]
    ELSE LET parsed == get_network_flags(networks[i].network_args)
             network_flags == parsed.flags
             primary_value == is_network_flag_set(network_flags, "primary",
                                                  FALSE)
             network_interface ==
                 IF is_network_flag_set(network_flags, "external", FALSE)
                 THEN set_external_network_access(
                          GetNetworkInterface(networks[i]))
                 ELSE GetNetworkInterface(networks[i])
         IN  IF parsed.exc # "none"
             THEN [exc |-> parsed.exc, network_interfaces |-> <<>>]
             ELSE IF primary_value /\ AlreadyPrimary(primary_intfc)
             THEN [exc |-> "ConfigurationError", network_interfaces |-> <<>>]
             ELSE InterfacesWalk(networks, i + 1,
                                 IF primary_value THEN i ELSE primary_intfc,
                                 Append(network_interfaces, network_interface))

\* __get_network_interface_definitions
GetNetworkInterfaceDefinitions(networks) ==
    LET walked == InterfacesWalk(networks, 1, NoPrimary, <<>>)
    IN  IF walked.exc # "none"
        THEN walked
        ELSE [exc |-> "none",
              network_interfaces |->
                  enable_external_network_access(networks,
                                                 walked.network_interfaces)]

\* _parse_accelerator over the pieces of accelerator_string.split(",")
RECURSIVE AcceleratorWalk(_, _)
AcceleratorWalk(pieces, accel) ==
    IF pieces = <<>>
    THEN [exc |-> "none", accel |-> accel]
    ELSE LET parts == Split(Strip(Head(pieces)), ":")
         IN  IF Len(parts) # 2
             THEN [exc |-> "ConfigurationError", accel |-> <<>>]
             ELSE IF IntRaises(parts[2]) # "none"
             THEN [exc |-> IntRaises(parts[2]), accel |-> <<>>]
             ELSE AcceleratorWalk(
                      Tail(pieces),
                      Append(accel, [acceleratorType |-> parts[1],
                                     acceleratorCount |-> IntOf(parts[2])]))
_parse_accelerator(accelerator_string) ==
    AcceleratorWalk(Split(accelerator_string, ","), <<>>)

\* The network names of the configurations looked at.
NetworkDefs == {<<"default">>, <<"n", "e", "t">>}

\* The flag strings of the configurations looked at: none, '', 'ext',
\* 'noext', 'pri', 'Pri;ext', 'pri;noext', 'ext;noext', 'bogus', 'ext;bogus'.
NetworkArgs ==
    {NoArgs,
     <<>>,
     <<"e", "x", "t">>,
     <<"n", "o", "e", "x", "t">>,
     <<"p", "r", "i">>,
     <<"P", "r", "i", ";", "e", "x", "t">>,
     <<"p", "r", "i", ";", "n", "o", "e", "x", "t">>,
     <<"e", "x", "t", ";", "n", "o", "e", "x", "t">>,
     <<"b", "o", "g", "u", "s">>,
     <<"e", "x", "t", ";", "b", "o", "g", "u", "s">>}

\* config['networks'] as process_config leaves it: a list of entries
NetworkEntries ==
    [network_def : NetworkDefs, network_args : NetworkArgs]
NetworkLists ==
    UNION {[1..n -> NetworkEntries] : n \in 0..MaxNetworks}

\* The accelerator settings looked at: not set, 'g:1', 'g:1, g:2', 'g',
\* 'g:1:2', 'g:x', ''.
AcceleratorSettings ==
    {NoAccelerators,
     <<"g", ":", "1">>,
     <<"g", ":", "1", ",", " ", "g", ":", "2">>,
     <<"g">>,
     <<"g", ":", "1", ":", "2">>,
     <<"g", ":", "x">>,
     <<>>}

ArgsInit ==
    /\ config \in [image : ImageModes, networks : NetworkLists,
                   accelerators : AcceleratorSettings]
    /\ common_launch_args = NoLaunchArgs
    /\ count = 1
    /\ added = {}
    /\ nondefault = {}
    /\ pc = "common_args"
    /\ idx = 1
    /\ req = <<BuildNodeRequest>>
    /\ node = <<InitNewNode>>
    /\ dbSession = {1}
    /\ dbCommitted = {1}
    /\ commits = 1
    /\ catalog = <<{}>>
    /\ cloud = <<"none">>
    /\ diskCalls = {}
    /\ queue = <<>>
    /\ unfinished = 0
    /\ worker = <<>>
    /\ deleteCalls = {}
    /\ registered = {}
    /\ events = <<>>
    /\ warned = FALSE
    /\ reconciled = 0
    /\ abortedAt = 0
    /\ raised = "none"
    /\ pending = "none"
    /\ result = <<>>
    /\ cleared = {}
    /\ log = <<>>
    /\ PollerIdle
    /\ DisksIdle

\* What is not touched by __get_common_launch_args.
argsFrame == <<count, added, nondefault, idx, req, node, dbSession,
               dbCommitted, commits, catalog, cloud, diskCalls, queue,
               unfinished, worker, deleteCalls, registered, events, warned,
               reconciled, abortedAt, pending, result, cleared, config>>

\* The image of the batch: looked up at the gateway by name or by family,
\* taken as given for 'image_url'.
CommonArgsImage(reply) ==
    /\ pc = "common_args"
    /\ IF config.image = "image_url"
       THEN /\ pc' = "networks"
            /\ UNCHANGED <<log, raised>>
       ELSE /\ log' = Append(log, [call |-> "images.get", node |-> 0,
                                   reply |-> reply])
            /\ IF GceGetImage(reply) = "none"
               THEN /\ pc' = "networks"
                    /\ UNCHANGED raised
               ELSE /\ pc' = "raised"
                    /\ raised' = GceGetImage(reply)
    /\ UNCHANGED common_launch_args
    /\ UNCHANGED argsFrame
    /\ UNCHANGED pollerVars
    /\ UNCHANGED diskVars

\* common_launch_args['network_interfaces'] =
\*     self.__get_network_interface_definitions(...)
CommonArgsNetworks ==
    /\ pc = "networks"
    /\ LET defs == GetNetworkInterfaceDefinitions(config.networks)
       IN  IF defs.exc = "none"
           THEN /\ pc' = "accelerators"
                /\ common_launch_args' =
                       [common_launch_args EXCEPT
                            !.network_interfaces = defs.network_interfaces]
                /\ UNCHANGED raised
           ELSE /\ pc' = "raised"
                /\ raised' = defs.exc
                /\ UNCHANGED common_launch_args
    /\ UNCHANGED log
    /\ UNCHANGED argsFrame
    /\ UNCHANGED pollerVars
    /\ UNCHANGED diskVars

\* if 'accelerators' in session['config']: ... _parse_accelerator(...);
\* return common_launch_args
CommonArgsAccelerators ==
    /\ pc = "accelerators"
    /\ IF config.accelerators = NoAccelerators
       THEN /\ pc' = "returned"
            /\ UNCHANGED <<common_launch_args, raised>>
       ELSE LET parsed == _parse_accelerator(config.accelerators)
            IN  IF parsed.exc = "none"
                THEN /\ pc' = "returned"
                     /\ common_launch_args' =
                            [common_launch_args EXCEPT
                                 !.accelerators = parsed.accel]
                     /\ UNCHANGED raised
                ELSE /\ pc' = "raised"
                     /\ raised' = parsed.exc
                     /\ UNCHANGED common_launch_args
    /\ UNCHANGED log
    /\ UNCHANGED argsFrame
    /\ UNCHANGED pollerVars
    /\ UNCHANGED diskVars

ArgsNext ==
    \/ \E reply \in {"ok", "HttpError"} : CommonArgsImage(reply)
    \/ CommonArgsNetworks
    \/ CommonArgsAccelerators

ArgsSpec == ArgsInit /\ [][ArgsNext]_vars

----------------------------------------------------------------------------
\* Gce.deleteNode: the nodes of the list are handled in order.

\* A node as deleteNode is handed it: with or without an instance mapping
\* that has a resource adapter configuration.
DeletableNodes ==
    {[state |-> "Provisioned", nics |-> 1, instance |-> b] : b \in BOOLEAN}

DeleteInit ==
    /\ count \in 0..MaxBatch
    /\ added \in SUBSET (1..MaxDisk)
    /\ nondefault \in SUBSET added
    /\ node \in [Requests -> DeletableNodes]
    /\ cloud \in [Requests -> {"running", "none"}]
    /\ catalog \in [Requests -> {{}, added}]
    /\ dbSession = Requests
    /\ dbCommitted = Requests
    /\ pc = "deleteNode"
    /\ idx = 1
    /\ req = <<>>
    /\ commits = 0
    /\ diskCalls = {}
    /\ queue = <<>>
    /\ unfinished = 0
    /\ worker = <<>>
    /\ deleteCalls = {}
    /\ registered = {}
    /\ events = <<>>
    /\ warned = FALSE
    /\ reconciled = 0
    /\ abortedAt = 0
    /\ raised = "none"
    /\ pending = "none"
    /\ result = <<>>
    /\ cleared = {}
    /\ log = <<>>
    /\ PollerIdle
    /\ DisksIdle
    /\ ArgsIdle

\* What is not touched by deleteNode.
deleteFrame == <<count, added, nondefault, node, dbSession, dbCommitted, req,
                 commits, diskCalls, queue, unfinished, worker, registered,
                 events, warned, reconciled, abortedAt, pending, result>>

\* Variant of HasNoVm: no node is skipped.
HasNoVmNever(n) == FALSE

\* deleteNode: 'not node.instance or not
\* node.instance.resource_adapter_configuration'
HasNoVm(n) == ~n.instance

\* deleteNode: 'continue' for a node without an associated VM
DeleteNodeSkip ==
    /\ pc = "deleteNode"
    /\ idx \in Requests
    /\ HasNoVm(node[idx])
    /\ idx' = idx + 1
    /\ UNCHANGED <<pc, cloud, catalog, deleteCalls, raised, cleared, log>>
    /\ UNCHANGED deleteFrame
    /\ UNCHANGED pollerVars
    /\ UNCHANGED diskVars
    /\ UNCHANGED argsVars

\* What leaves __deleteInstance: CommandFailed for an HttpError other than
\* 404, any other exception of the delete call as it is.
DeleteInstanceException(reply) ==
    IF reply = "HttpError" THEN "CommandFailed" ELSE reply

\* deleteNode: __deleteInstance for the node at hand
DeleteNodeInstance(reply) ==
    /\ pc = "deleteNode"
    /\ idx \in Requests
    /\ ~HasNoVm(node[idx])
    /\ reply \in DeleteReplies(idx)
    /\ deleteCalls' = deleteCalls \cup {idx}
    /\ log' = Append(log, [call |-> "delete", node |-> idx, reply |-> reply])
    /\ cloud' = IF reply = "ok" THEN [cloud EXCEPT ![idx] = "none"] ELSE cloud
    /\ IF DeleteInstanceRaises(reply)
       THEN /\ pc' = "done"
            /\ raised' = DeleteInstanceException(reply)
       ELSE /\ pc' = "node_cleanup"
            /\ raised' = raised
    /\ UNCHANGED <<idx, catalog, cleared>>
    /\ UNCHANGED deleteFrame
    /\ UNCHANGED pollerVars
    /\ UNCHANGED diskVars
    /\ UNCHANGED argsVars

\* deleteNode after __deleteInstance returned: __node_cleanup, then
\* __process_deleted_disk_changes once more
DeleteNodeCleanup ==
    /\ pc = "node_cleanup"
    /\ cleared' = cleared \cup {idx}
    /\ catalog' = [catalog EXCEPT ![idx] = NodeCleanup(NodeCleanup(@))]
    /\ log' = Append(log, [call |-> "cleanup", node |-> idx, reply |-> "ok"])
    /\ idx' = idx + 1
    /\ pc' = "deleteNode"
    /\ UNCHANGED <<cloud, deleteCalls, raised>>
    /\ UNCHANGED deleteFrame
    /\ UNCHANGED pollerVars
    /\ UNCHANGED diskVars
    /\ UNCHANGED argsVars

\* deleteNode returns after the last node
DeleteNodeReturns ==
    /\ pc = "deleteNode"
    /\ idx > count
    /\ pc' = "done"
    /\ UNCHANGED <<idx, cloud, catalog, deleteCalls, raised, cleared, log>>
    /\ UNCHANGED deleteFrame
    /\ UNCHANGED pollerVars
    /\ UNCHANGED diskVars
    /\ UNCHANGED argsVars

DeleteNext ==
    \/ DeleteNodeSkip
    \/ \E reply \in {"ok", "404", "HttpError", "exception"} :
          DeleteNodeInstance(reply)
    \/ DeleteNodeCleanup
    \/ DeleteNodeReturns

DeleteSpec == DeleteInit /\ [][DeleteNext]_vars

----------------------------------------------------------------------------
\* Gce.rebootNode: the nodes of the list are reset one after the other, each
\* reset followed by _blocking_call on the operation it returned.

RebootInit ==
    /\ count \in 0..MaxBatch
    /\ node \in [Requests -> DeletableNodes]
    /\ cloud \in [Requests -> {"running", "none"}]
    /\ catalog = [i \in Requests |-> {}]
    /\ dbSession = Requests
    /\ dbCommitted = Requests
    /\ added = {}
    /\ nondefault = {}
    /\ pc = "rebootNode"
    /\ idx = 1
    /\ req = <<>>
    /\ commits = 0
    /\ diskCalls = {}
    /\ queue = <<>>
    /\ unfinished = 0
    /\ worker = <<>>
    /\ deleteCalls = {}
    /\ registered = {}
    /\ events = <<>>
    /\ warned = FALSE
    /\ reconciled = 0
    /\ abortedAt = 0
    /\ raised = "none"
    /\ pending = "none"
    /\ result = <<>>
    /\ cleared = {}
    /\ log = <<>>
    /\ gevent = FALSE
    /\ polling_interval \in PollingIntervals
    /\ given = NoResponse
    /\ response = NoResponse
    /\ status = "<unset>"
    /\ attempt = 0
    /\ polls = 0
    /\ slept = <<>>
    /\ returned = NoResponse
    /\ calls = 0
    /\ DisksIdle
    /\ ArgsIdle

\* What is not touched by rebootNode.
rebootFrame == <<count, added, nondefault, node, dbSession, dbCommitted, req,
                 commits, catalog, cloud, diskCalls, queue, unfinished,
                 worker, deleteCalls, registered, events, warned, reconciled,
                 abortedAt, pending, result, cleared, gevent,
                 polling_interval, attempt, returned>>

\* node.instance.resource_adapter_configuration.name: rebootNode has no test
\* for a node without an associated VM, the attribute access fails
GetSessionRaises(n) == IF n.instance THEN "none" ELSE "AttributeError"

\* What instances().reset().execute() can answer, given the backend: the
\* operation it started, or an error.
ResetReplies(i) ==
    IF cloud[i] = "none" THEN {"404"}
    ELSE {"RUNNING", "DONE"} \cup GatewayErrors

\* What zoneOperations().get().execute() can answer while the reset is
\* polled.
RebootPollReplies == {"RUNNING", "DONE", "<empty>", "404"} \cup GatewayErrors

\* The replies that are exceptions of the client library: apiclient's
\* HttpError with status 404 or another status, or a transport error.
RebootExceptions == {"404"} \cup GatewayErrors

\* Variant of RebootIgnores: every HTTP error is logged and passed over.
RebootIgnoresAnyHttpError(exc) == exc \in {"404", "HttpError"}

\* except HttpError: if ex.resp['status'] == '404': logged, the loop goes on
RebootIgnores(exc) == exc = "404"

\* What leaves rebootNode: CommandFailed for an HttpError other than 404; an
\* exception that is no HttpError is not caught.
RebootException(exc) ==
    IF exc = "HttpError" THEN "CommandFailed" ELSE exc

\* rebootNode: get_gce_session for a node without instance mapping
RebootNodeNoSession ==
    /\ pc = "rebootNode"
    /\ idx \in Requests
    /\ GetSessionRaises(node[idx]) # "none"
    /\ pc' = "done"
    /\ raised' = GetSessionRaises(node[idx])
    /\ UNCHANGED <<idx, log, given, response, status, polls, slept, calls>>
    /\ UNCHANGED rebootFrame
    /\ UNCHANGED diskVars
    /\ UNCHANGED argsVars

\* rebootNode: instances().reset() for the node at hand and the entry into
\* _blocking_call (status = response['status'])
RebootNodeReset(reply) ==
    /\ pc = "rebootNode"
    /\ idx \in Requests
    /\ GetSessionRaises(node[idx]) = "none"
    /\ reply \in ResetReplies(idx)
    /\ log' = Append(log, [call |-> "reset", node |-> idx, reply |-> reply])
    /\ polls' = 0
    /\ slept' = <<>>
    /\ IF reply \in RebootExceptions
       THEN /\ UNCHANGED <<given, response, status, calls>>
            /\ IF RebootIgnores(reply)
               THEN /\ idx' = idx + 1
                    /\ UNCHANGED <<pc, raised>>
               ELSE /\ pc' = "done"
                    /\ raised' = RebootException(reply)
                    /\ UNCHANGED idx
       ELSE /\ given' = Operation(reply, 0)
            /\ response' = Operation(reply, 0)
            /\ status' = reply
            /\ calls' = calls + 1
            /\ pc' = "polling"
            /\ UNCHANGED <<idx, raised>>
    /\ UNCHANGED rebootFrame
    /\ UNCHANGED diskVars
    /\ UNCHANGED argsVars

\* _blocking_call under rebootNode, one turn of the loop: the get of the
\* operation, the new status, time.sleep(polling_interval) when the
\* operation is not done; an HttpError of the get is handled by rebootNode
RebootNodePoll(reply) ==
    /\ pc = "polling"
    /\ LoopCondition
    /\ polls < MaxPolls
    /\ reply \in RebootPollReplies
    /\ polls' = polls + 1
    /\ log' = Append(log, [call |-> "poll", node |-> idx, reply |-> reply])
    /\ IF reply \in RebootExceptions
       THEN /\ UNCHANGED <<response, status, slept>>
            /\ IF RebootIgnores(reply)
               THEN /\ idx' = idx + 1
                    /\ pc' = "rebootNode"
                    /\ UNCHANGED raised
               ELSE /\ pc' = "done"
                    /\ raised' = RebootException(reply)
                    /\ UNCHANGED idx
       ELSE /\ response' = Operation(reply, polls + 1)
            /\ status' = IF Truthy(response') THEN reply ELSE status
            /\ slept' = IF Truthy(response') /\ reply # "DONE"
                        THEN Append(slept, SleepTime(gevent, polling_interval,
                                                     attempt, 0))
                        ELSE slept
            /\ UNCHANGED <<pc, idx, raised>>
    /\ UNCHANGED <<given, calls>>
    /\ UNCHANGED rebootFrame
    /\ UNCHANGED diskVars
    /\ UNCHANGED argsVars

\* _blocking_call returns: 'Instance [%s] rebooted' is logged and the loop
\* takes the next node
RebootNodeRebooted ==
    /\ pc = "polling"
    /\ ~LoopCondition
    /\ idx' = idx + 1
    /\ pc' = "rebootNode"
    /\ log' = Append(log, [call |-> "rebooted", node |-> idx,
                           reply |-> response.status])
    /\ UNCHANGED <<raised, given, response, status, polls, slept, calls>>
    /\ UNCHANGED rebootFrame
    /\ UNCHANGED diskVars
    /\ UNCHANGED argsVars

\* rebootNode returns after the last node
RebootNodeReturns ==
    /\ pc = "rebootNode"
    /\ idx > count
    /\ pc' = "done"
    /\ UNCHANGED <<idx, raised, log, given, response, status, polls, slept,
                   calls>>
    /\ UNCHANGED rebootFrame
    /\ UNCHANGED diskVars
    /\ UNCHANGED argsVars

RebootNext ==
    \/ RebootNodeNoSession
    \/ \E reply \in {"RUNNING", "DONE", "404", "HttpError", "OSError"} :
          RebootNodeReset(reply)
    \/ \E reply \in RebootPollReplies : RebootNodePoll(reply)
    \/ RebootNodeRebooted
    \/ RebootNodeReturns

RebootSpec == RebootInit /\ [][RebootNext]_vars

----------------------------------------------------------------------------
\* Properties of the batch orchestrator.

Succeeded == {i \in DOMAIN req : req[i].status = "success"}

\* C1: when Gce.start has finished, in whatever way, every request whose node
\* is not returned has no instance left at the backend, no drive left in the
\* storage catalog and no node record.
RollbackCompleteness ==
    pc = "done" =>
        \A i \in DOMAIN req :
            i \notin Range(result) =>
                /\ cloud[i] = "none"
                /\ catalog[i] = {}
                /\ i \notin dbSession
                /\ i \notin dbCommitted

\* C2: the nodes committed by the reconciliation number at most the batch
\* size, and each has a live instance when the reconciliation commits it.
CommittedNodesAreLive ==
    pc \in {"returning", "reraising"} =>
        /\ Len(events) <= count
        /\ \A i \in Range(events) : cloud[i] = "running"

\* Every create call succeeded, and the wait phase left k requests in
\* 'success' and the others in 'error', with 0 < k < N.
PartialCase ==
    /\ pc = "done"
    /\ \A i \in DOMAIN req : req[i].response /\ req[i].status \in {"success", "error"}
    /\ Succeeded # {}
    /\ Succeeded # DOMAIN req

\* C3 as stated: in the partial case Gce.start returns normally with exactly
\* the k successful nodes.
PartialSuccessReturns ==
    PartialCase =>
        /\ raised = "none"
        /\ Range(result) = Succeeded
        /\ Len(result) = Cardinality(Succeeded)

\* C3, amended: in the partial case the reconciliation commits exactly the k
\* successful nodes as provisioned, removes the catalog entries and the node
\* records of the others and logs the warning, and then Gce.start fails with
\* the exception of __wait_for_instances and returns no node.
PartialSuccessCommitsThenRaises ==
    PartialCase =>
        /\ raised \in {"CommandFailed", "KeyError"}
        /\ result = <<>>
        /\ reconciled = 1
        /\ dbCommitted = Succeeded
        /\ Range(events) = Succeeded
        /\ \A i \in Succeeded : node[i].state = "Provisioned"
        /\ \A i \in DOMAIN req \ Succeeded : catalog[i] = {}
        /\ warned

PartialSuccessWitness ==
    /\ PartialCase
    /\ raised = "CommandFailed"
    /\ added = {1}

\* C4: CommandFailed leaves Gce.start only after the reconciliation has run
\* the cleanup for every request not in 'success' and committed the database.
CommandFailedAfterRollback ==
    raised = "CommandFailed" =>
        /\ reconciled = 1
        /\ commits = 2
        /\ dbCommitted = dbSession
        /\ \A i \in DOMAIN req :
              req[i].status # "success" =>
                  /\ catalog[i] = {}
                  /\ i \notin dbCommitted

CommandFailedWitness ==
    /\ raised = "CommandFailed"
    /\ added = {1}
    /\ \E i \in DOMAIN req : req[i].status = "error"
    /\ \E i \in DOMAIN req : req[i].status = "success"

\* C5: when every request of a non-empty batch ends in 'error', Gce.start
\* raises CommandFailed, returns no node and leaves no node record.
AllFailedRaisesCommandFailed ==
    (/\ pc = "done"
     /\ count > 0
     /\ \A i \in DOMAIN req : req[i].status = "error") =>
        /\ raised = "CommandFailed"
        /\ result = <<>>
        /\ dbCommitted = {}

\* C6 as stated: once the status of a request is 'success' or 'error' it
\* never changes again.
StatusNeverChangesOnceTerminal ==
    [][\A i \in DOMAIN req :
          req[i].status \in {"success", "error"} =>
              req'[i].status = req[i].status]_vars

\* C6, amended: the status leaves 'pending' only for 'success' or 'error',
\* written by the greenlet that holds the request; 'error' is never left;
\* 'success' is left only for 'error', and only when the hook of that request
\* raises in the greenlet that holds it.
StatusMovesForward ==
    [][\A i \in DOMAIN req :
          req'[i].status # req[i].status =>
              \/ /\ req[i].status = "pending"
                 /\ req'[i].status \in {"success", "error"}
                 /\ \E w \in DOMAIN worker :
                       worker[w].cur = i /\ worker[w].phase = "poll"
              \/ /\ req[i].status = "success"
                 /\ req'[i].status = "error"
                 /\ HookRaises(req'[i].hook)
                 /\ \E w \in DOMAIN worker :
                       worker[w].cur = i /\ worker[w].phase = "hook"]_vars

StatusRegressionWitness ==
    \E i \in DOMAIN req :
        /\ req[i].result = "DONE"
        /\ req[i].status = "error"

\* C7: when the loop of __launch_instances raises at request k, the wait
\* phase is never started, the exception leaves Gce.start, and all node
\* records of the batch are deleted and the deletion committed before that.
SubmitFailureAbortsBatch ==
    abortedAt # 0 =>
        /\ pc \in {"except", "reraising", "done"}
        /\ pending # "none"
        /\ worker = <<>>
        /\ queue = <<>>
        /\ \A i \in DOMAIN req : req[i].status = "pending" /\ req[i].poll = "none"
        /\ result = <<>>
        /\ pc = "done" => raised = pending
        /\ raised # "none" =>
              /\ dbSession = {}
              /\ dbCommitted = {}
              /\ commits = 2

SubmitFailureWitness ==
    /\ pc = "done"
    /\ abortedAt = 2
    /\ raised = "HttpError"
    /\ cloud[1] = "creating"
    /\ added = {1}

\* C8: when the image lookup fails, Gce.start raises OperationFailed, no
\* create-disk and no create-instance call was made and no node record of the
\* batch remains.
ImageFailureRaisesOperationFailed ==
    (/\ pc = "done"
     /\ idx = 0
     /\ pending # "none") =>
        /\ raised = "OperationFailed"
        /\ diskCalls = {}
        /\ \A i \in DOMAIN req : cloud[i] = "none" /\ ~req[i].response
        /\ dbSession = {}
        /\ dbCommitted = {}

\* The status a request has, given what its own polling and its own hook met.
ExpectedStatus(poll, hook) ==
    IF poll = "none" THEN "pending"
    ELSE IF poll = "DONE" /\ ~HookRaises(hook) THEN "success"
    ELSE "error"

\* C9: in the wait phase the status of every request is decided by what its
\* own polling and its own hook met, and a step that writes a request is a
\* step of the one greenlet that holds it and writes no other request.
WaitPhaseIsolation ==
    /\ [](\A i \in DOMAIN req :
             req[i].status = ExpectedStatus(req[i].poll, req[i].hook))
    /\ [][\A j \in DOMAIN req :
             (pc = "join" /\ req'[j] # req[j]) =>
                 /\ \E w \in DOMAIN worker :
                       /\ worker[w].cur = j
                       /\ worker'[w] # worker[w]
                       /\ \A v \in DOMAIN worker \ {w} : worker'[v] = worker[v]
                 /\ \A k \in DOMAIN req \ {j} : req'[k] = req[k]]_vars

WaitPhaseIsolationWitness ==
    /\ pc = "done"
    /\ \E i, j \in DOMAIN req :
          /\ req[i].poll = "exception"
          /\ req[i].status = "error"
          /\ req[j].status = "success"
          /\ req[j].hook = "ok"

\* C10: a request whose hook raised is in 'error', and the greenlet that
\* holds it keeps it until the delete call for its instance is issued; when
\* the delete call ends, failed or not, that greenlet marks the task done and
\* waits for the next request, and no other request is written.
HookFailureDeletesInstance ==
    /\ [](\A i \in DOMAIN req :
             HookRaises(req[i].hook) =>
                 /\ req[i].status = "error"
                 /\ \/ i \in deleteCalls
                    \/ \E w \in DOMAIN worker :
                          worker[w].cur = i /\ worker[w].phase = "delete")
    /\ [][\A w \in DOMAIN worker :
             (worker[w].phase = "delete" /\ worker'[w] # worker[w]) =>
                 /\ worker[w].cur \in deleteCalls'
                 /\ worker'[w] = TaskDone
                 /\ unfinished' = unfinished - 1
                 /\ \A k \in DOMAIN req \ {worker[w].cur} : req'[k] = req[k]]_vars

HookFailureWitness ==
    /\ pc = "done"
    /\ \E i, j \in DOMAIN req :
          /\ HookRaises(req[i].hook)
          /\ i \in deleteCalls
          /\ cloud[i] = "running"
          /\ req[i].message = ExcText("HttpError")
          /\ i < j
          /\ req[j].status = "success"

\* C11: a request whose hook found no network interface address in the
\* instance description ends in 'error', its node is not committed as
\* provisioned and cluster registration is not invoked for it.
NoAddressFailsRequest ==
    \A i \in DOMAIN req :
        req[i].hook \in {"noip", "nokey"} =>
            /\ i \notin registered
            /\ pc \in {"returning", "reraising", "done"} =>
                  /\ req[i].status = "error"
                  /\ i \notin Range(events)
                  /\ i \notin dbCommitted
                  /\ node[i].state # "Provisioned"

\* C12: when the hook finds that the instance no longer exists, it returns
\* without error: the node (state, nics) and the status of the request are
\* left as they were, no cluster registration and no delete call is made for
\* it, and the greenlet marks the task done.
HookInstanceGone ==
    [][\A w \in DOMAIN worker :
          LET i == worker[w].cur
          IN  (worker[w].phase = "hook" /\ req'[i].hook = "404") =>
                  /\ node'[i] = node[i]
                  /\ req'[i].status = req[i].status
                  /\ req'[i].message = req[i].message
                  /\ registered' = registered
                  /\ deleteCalls' = deleteCalls
                  /\ worker'[w] = TaskDone]_vars

HookInstanceGoneWitness ==
    /\ pc = "done"
    /\ \E i \in DOMAIN req :
          /\ req[i].hook = "404"
          /\ req[i].status = "success"
          /\ node[i].nics = 0
          /\ i \notin registered

Min(a, b) == IF a < b THEN a ELSE b

\* The greenlets that hold a request (polling it or running its hook).
Busy == {w \in DOMAIN worker : worker[w].phase # "idle"}

\* C14: min(10, N) greenlets are started for a batch of N requests, and at
\* every moment of the wait phase at most min(10, N) requests are being
\* polled or post-processed.
PoolIsBounded ==
    pc = "join" =>
        /\ Len(worker) = Min(10, count)
        /\ Cardinality(Busy) <= Min(10, count)
        /\ Cardinality({worker[w].cur : w \in Busy}) <= Min(10, count)
        /\ Cardinality({i \in DOMAIN req :
                           req[i].poll # "none" /\ req[i].hook = "none"
                           /\ \E w \in Busy : worker[w].cur = i})
              <= Min(10, count)

PoolIsBoundedWitness ==
    /\ pc = "join"
    /\ count > 10
    /\ Cardinality(Busy) = 10
    /\ queue # <<>>

\* The greenlets that hold request i.
Holders(i) == {w \in DOMAIN worker : worker[w].cur = i}

\* C15: a request on the queue is there once, is held by no greenlet and has
\* not been worked on; a greenlet takes the head of the queue, which leaves
\* the queue with that step; a request is held by at most one greenlet; a
\* request is written in the wait phase only by the one greenlet that holds
\* it, and only in its status, message and result; when the join returns
\* every submitted request has been taken and worked on.
TakenExactlyOnce ==
    /\ [](/\ \A k, l \in DOMAIN queue : queue[k] = queue[l] => k = l
          /\ \A k \in DOMAIN queue :
                /\ Holders(queue[k]) = {}
                /\ req[queue[k]].status = "pending"
                /\ req[queue[k]].poll = "none"
          /\ \A i \in DOMAIN req : Cardinality(Holders(i)) <= 1
          /\ pc \in {"post", "except", "returning", "reraising", "done"} =>
                \A i \in DOMAIN req :
                    (req[i].response /\ abortedAt = 0) =>
                        /\ req[i].poll # "none"
                        /\ Holders(i) = {}
                        /\ i \notin Range(queue))
    /\ [][\A w \in DOMAIN worker :
             (w \in DOMAIN worker' /\ worker'[w].cur # worker[w].cur
              /\ worker'[w].cur # 0) =>
                 /\ worker[w].cur = 0
                 /\ queue # <<>>
                 /\ worker'[w].cur = Head(queue)
                 /\ queue' = Tail(queue)
                 /\ \A v \in DOMAIN worker \ {w} : worker'[v] = worker[v]]_vars
    /\ [][\A j \in DOMAIN req :
             (pc = "join" /\ req'[j] # req[j]) =>
                 /\ Cardinality(Holders(j)) = 1
                 /\ \A w \in Holders(j) : worker'[w] # worker[w]
                 /\ req'[j].instance_name = req[j].instance_name
                 /\ req'[j].response = req[j].response
                 /\ \A k \in DOMAIN req \ {j} : req'[k] = req[k]]_vars

TakenExactlyOnceWitness ==
    /\ pc = "done"
    /\ count = 2
    /\ \A i \in DOMAIN req : req[i].poll # "none"
    /\ req[1].status = "success"
    /\ req[2].status = "error"
    /\ req[2].message # NoMessage

\* The requests that were put on the queue of the wait phase.
Queued == IF worker = <<>> THEN {} ELSE {i \in DOMAIN req : req[i].response}

\* C16: while a queued request is still on the queue or held by a greenlet,
\* the reconciliation has not started; the step that releases the join, and
\* every later step, finds every queued request in 'success' or 'error', no
\* greenlet busy and the queue empty, and changes no request.
JoinBarrier ==
    /\ []((\/ queue # <<>>
           \/ Busy # {}
           \/ \E i \in Queued : req[i].status \notin {"success", "error"})
              => (pc = "join" /\ reconciled = 0))
    /\ [][(/\ pc \in {"join", "post", "except", "returning", "reraising"}
            /\ pc' \in {"post", "except", "returning", "reraising", "done"}) =>
             /\ unfinished = 0
             /\ Busy = {}
             /\ queue = <<>>
             /\ \A i \in Queued : req[i].status \in {"success", "error"}
             /\ req' = req]_vars

JoinBarrierWitness ==
    /\ pc \in {"post", "except"}
    /\ reconciled = 0
    /\ count = 2
    /\ Queued = {1, 2}
    /\ req[1].status = "error"
    /\ req[2].status = "success"

\* C17 as stated: between the start of the wait phase and the release of the
\* join no node record changes.
NodesUntouchedByWorkers ==
    [][pc = "join" => node' = node]_vars

\* C17, amended: in the wait phase the database session is not used (nothing
\* is added to it, deleted from it or committed), but node records are
\* written: the hook, run by the greenlet that holds the request, sets the
\* state of that request's node to Installed and appends at most one nic to
\* it; no other node changes in that step and nothing else of a node is
\* written before the join is released.
OnlyHookWritesOwnNode ==
    /\ [][pc = "join" =>
             /\ dbSession' = dbSession
             /\ dbCommitted' = dbCommitted
             /\ commits' = commits]_vars
    /\ [][\A i \in DOMAIN node :
             (pc = "join" /\ node'[i] # node[i]) =>
                 /\ \E w \in DOMAIN worker :
                       /\ worker[w].cur = i
                       /\ worker[w].phase = "hook"
                       /\ worker'[w] # worker[w]
                 /\ node[i].state = "Launching"
                 /\ node'[i].state = "Installed"
                 /\ node'[i].nics \in {node[i].nics, node[i].nics + 1}
                 /\ node'[i].instance = node[i].instance
                 /\ \A k \in DOMAIN node \ {i} : node'[k] = node[k]]_vars

HookWritesNodeWitness ==
    /\ pc = "join"
    /\ \E i, j \in DOMAIN node :
          /\ node[i].state = "Installed"
          /\ node[i].nics = 1
          /\ node[j].state = "Launching"
          /\ \E w \in DOMAIN worker : worker[w].cur = j

----------------------------------------------------------------------------
\* Properties of deleteNode.

\* C13: a delete call answered with 404 does not raise: the cleanup of the
\* node (session and catalog) comes next and deleteNode goes on; a delete call
\* answered with any other HTTP error ends deleteNode with CommandFailed.
DeleteAbsentIsNormal ==
    /\ \A k \in DOMAIN log :
          /\ (log[k].call = "delete" /\ log[k].reply = "404") =>
                 IF k = Len(log)
                 THEN pc = "node_cleanup" /\ raised = "none"
                 ELSE /\ log[k + 1] = [call |-> "cleanup", node |-> log[k].node,
                                       reply |-> "ok"]
                      /\ log[k].node \in cleared
                      /\ catalog[log[k].node] \subseteq nondefault
          /\ (log[k].call = "delete" /\ log[k].reply = "HttpError") =>
                 /\ k = Len(log)
                 /\ pc = "done"
                 /\ raised = "CommandFailed"
    /\ (pc = "done" /\ raised = "none") =>
          \A i \in DOMAIN node :
              node[i].instance =>
                  i \in cleared /\ catalog[i] \subseteq nondefault

DeleteAbsentWitness ==
    /\ pc = "done"
    /\ raised = "none"
    /\ added = {1, 2}
    /\ nondefault = {}
    /\ \E k \in DOMAIN log :
          /\ log[k].reply = "404"
          /\ log[k].node \in cleared
          /\ catalog[log[k].node] = {}

----------------------------------------------------------------------------
\* Properties of the Operation Poller.

\* C18 as stated: a value returned by the poller is an operation whose
\* status is DONE.
PollerReturnsDone ==
    pc = "returned" => returned.status = "DONE"

\* C18, amended: a value returned by the poller is the response held last,
\* and it is either an operation whose status is DONE or the empty response
\* that the backend gave to the last poll; an operation that is not done is
\* never returned, and the empty response is followed by no sleep.
PollerReturnsDoneOrEmpty ==
    pc = "returned" =>
        /\ returned = response
        /\ returned.status \in {"DONE", "<empty>"}
        /\ returned.status = "<empty>" =>
              /\ polls >= 1
              /\ returned.seq = polls
              /\ Len(slept) = polls - 1
        /\ returned.status = "DONE" =>
              /\ status = "DONE"
              /\ Len(slept) = polls - (IF polls = 0 THEN 0 ELSE 1)

PollerReturnsWitness ==
    /\ pc = "returned"
    /\ returned.status = "DONE"
    /\ polls = 3
    /\ Len(slept) = 2
    /\ gevent

\* C19: a call of the poller with an operation whose status is DONE makes no
\* backend call, does not sleep, does not raise and returns the operation it
\* was given, also when the call is repeated with the operation returned.
PollingDoneIsIdempotent ==
    given.status = "DONE" =>
        /\ polls = 0
        /\ slept = <<>>
        /\ pc # "raised"
        /\ raised = "none"
        /\ response = given
        /\ pc = "returned" => returned = given

PollingDoneAgainWitness ==
    /\ pc = "returned"
    /\ calls = 2
    /\ given.status = "DONE"
    /\ returned = given
    /\ gevent

\* C20: in a call of _gevent_blocking_call the first sleep lasts exactly 10
\* seconds whatever the polling interval is, and every later sleep is a
\* backoff delay: the k-th sleep lies between half of and the whole of
\* min(max_sleep_time, polling_interval * 1000 * 2 ** (k - 1)) milliseconds.
FirstSleepIsFixed ==
    gevent =>
        /\ Len(slept) >= 1 => slept[1] = 10000
        /\ \A k \in 2..Len(slept) :
              /\ 2 * slept[k] >= Temp(polling_interval, k - 1)
              /\ slept[k] <= Temp(polling_interval, k - 1)

FirstSleepWitness ==
    /\ gevent
    /\ polling_interval = 1
    /\ Len(slept) = 2
    /\ slept[1] = 10000
    /\ slept[2] = 1500

\* The expected value of the sleep that follows the poll at attempt att:
\* random.randint(0, temp / 2) is uniform, so it is the delay of the middle
\* draw (10 s at attempt 0, 3/4 of temp later).
ExpectedSleep(att) == SleepTime(TRUE, polling_interval, att, 1)

\* C21 as stated: in a call of _gevent_blocking_call no sleep is longer than
\* max_sleep_time and the expected value of a sleep is not below that of the
\* sleep before it.
SleepsCappedAndMonotone ==
    gevent =>
        /\ \A k \in 1..Len(slept) : slept[k] <= max_sleep_time
        /\ \A k \in 2..Len(slept) : ExpectedSleep(k - 2) <= ExpectedSleep(k - 1)

\* C21, amended: the first sleep lasts 10 seconds, which is more than
\* max_sleep_time; from the second sleep on no sleep is longer than
\* max_sleep_time, each lies between the lowest and the highest draw of its
\* attempt, and the expected value of a sleep is not below that of the sleep
\* before it.
BackoffCappedAfterFirstSleep ==
    gevent =>
        /\ Len(slept) >= 1 => slept[1] > max_sleep_time
        /\ \A k \in 2..Len(slept) :
              /\ slept[k] <= max_sleep_time
              /\ slept[k] >= SleepTime(TRUE, polling_interval, k - 1, 0)
              /\ slept[k] <= SleepTime(TRUE, polling_interval, k - 1, 2)
        /\ \A k \in 3..Len(slept) : ExpectedSleep(k - 2) <= ExpectedSleep(k - 1)

BackoffWitness ==
    /\ gevent
    /\ polling_interval = 1
    /\ Len(slept) = 3
    /\ slept[2] = 2000
    /\ slept[3] = 4000

\* C22: an error that the gateway raises while the operation status is
\* fetched leaves the poller as it is: nothing is returned, the poller makes
\* no further poll and does not sleep; in the wait phase the greenlet that
\* holds the request catches it, marks that request 'error' (with the text of
\* the exception when it has one), does not poll again and marks the task
\* done, and no other request is written.
PollErrorPropagates ==
    /\ [][(pc = "loop" /\ pc' = "raised") =>
             /\ raised' \in GatewayErrors
             /\ polls' = polls + 1
             /\ slept' = slept
             /\ response' = response
             /\ returned' = NoResponse]_vars
    /\ [][pc # "raised"]_vars
    /\ [][\A w \in DOMAIN worker :
             LET i == worker[w].cur
             IN  (/\ pc = "join"
                  /\ worker[w].phase = "poll"
                  /\ req'[i].poll \in {"exception", "exception_empty"}) =>
                     /\ req'[i].status = "error"
                     /\ req'[i].message =
                           (IF req'[i].poll = "exception"
                            THEN ExcText("exception") ELSE NoMessage)
                     /\ req'[i].result = "none"
                     /\ worker'[w] = TaskDone
                     /\ unfinished' = unfinished - 1
                     /\ node' = node
                     /\ \A k \in DOMAIN req \ {i} : req'[k] = req[k]]_vars

PollErrorWitness ==
    /\ pc = "raised"
    /\ raised = "OSError"
    /\ gevent
    /\ polls = 2
    /\ Len(slept) = 1

\* The wait-phase case of C22: a request whose polling raised is in 'error'
\* while another request of the batch succeeded.
PollErrorCaughtWitness ==
    /\ pc = "done"
    /\ \E i, j \in DOMAIN req :
          /\ req[i].poll = "exception"
          /\ req[i].message = ExcText("exception")
          /\ req[j].status = "success"

----------------------------------------------------------------------------
\* Properties of the Disk Provisioner.

\* C23: the disks are handled in ascending order of their indices: when the
\* loop takes a disk, every added disk with a lower index has been taken
\* before; and no create-disk call is made for disk 1.
DisksInAscendingOrder ==
    /\ \A k \in DOMAIN visited :
          \A e \in added :
              e < visited[k] => \E l \in 1..(k - 1) : visited[l] = e
    /\ \A k \in DOMAIN log : log[k].call = "disks.insert" => log[k].node # 1
    /\ <<1, 1>> \notin diskCalls

\* C24: every added disk of the default adapter with an index above 1 that
\* the loop has taken got a create-disk call and, when the gateway accepted
\* every create-disk call, was polled to the end without an exception, is in
\* the returned list with the link of its operation and is registered with
\* the storage catalog.
DataDiskCreatedAndRecorded ==
    \A k \in DOMAIN visited :
        LET d == visited[k]
        IN  (d > 1 /\ d \notin nondefault) =>
                /\ \E l \in DOMAIN log :
                       log[l].call = "disks.insert" /\ log[l].node = d
                /\ (\A l \in DOMAIN log : log[l].reply = "ok") =>
                       /\ raised = "none"
                       /\ \E j \in DOMAIN persistent_disks :
                              persistent_disks[j] = [disk |-> d, link |-> TRUE]
                       /\ d \in catalog[1]

\* C25: a disk of another storage adapter is passed over: no gateway call is
\* made for it, it is not registered with the storage catalog and it is not
\* in persistent_disks.
NonDefaultDiskSkipped ==
    \A d \in nondefault :
        /\ <<1, d>> \notin diskCalls
        /\ \A k \in DOMAIN log : log[k].node # d
        /\ d \notin catalog[1]
        /\ \A j \in DOMAIN persistent_disks : persistent_disks[j].disk # d

\* A data disk of another adapter was passed over and the call returned the
\* boot disk.
NonDefaultDiskSkippedWitness ==
    /\ pc = "returned"
    /\ \E k \in DOMAIN visited : visited[k] \in nondefault /\ visited[k] > 1
    /\ persistent_disks = <<[disk |-> 1, link |-> FALSE]>>

----------------------------------------------------------------------------
\* Properties of __get_common_launch_args.

\* Every flag of every entry is one get_network_flags knows.
KnownFlags(networks) ==
    \A i \in DOMAIN networks :
        get_network_flags(networks[i].network_args).exc = "none"

\* The entries that carry the primary flag.
PrimaryEntries(networks) ==
    {i \in DOMAIN networks :
        is_network_flag_set(get_network_flags(networks[i].network_args).flags,
                            "primary", FALSE)}

\* C26: for a networks list whose flags are all known ones, network interface
\* resolution raises ConfigurationError when two or more entries carry the
\* primary flag, and otherwise returns one interface per entry, in the order
\* of the entries.
PrimaryRule ==
    [][(pc = "networks" /\ KnownFlags(config.networks)) =>
          IF Cardinality(PrimaryEntries(config.networks)) >= 2
          THEN /\ pc' = "raised"
               /\ raised' = "ConfigurationError"
               /\ common_launch_args' = common_launch_args
          ELSE /\ pc' = "accelerators"
               /\ raised' = "none"
               /\ LET nis == common_launch_args'.network_interfaces
                  IN  /\ Len(nis) = Len(config.networks)
                      /\ \A i \in DOMAIN nis :
                             nis[i].network = config.networks[i].network_def
      ]_vars

\* Two primary entries were rejected.
PrimaryRuleWitness ==
    /\ pc = "raised"
    /\ raised = "ConfigurationError"
    /\ KnownFlags(config.networks)
    /\ Cardinality(PrimaryEntries(config.networks)) = 2

\* Two entries of two networks, one of them primary, were resolved in order.
OnePrimaryAcceptedWitness ==
    /\ pc = "accelerators"
    /\ Cardinality(PrimaryEntries(config.networks)) = 1
    /\ Len(common_launch_args.network_interfaces) = 2
    /\ common_launch_args.network_interfaces[1].network = <<"n", "e", "t">>
    /\ common_launch_args.network_interfaces[2].network = <<"default">>

\* No entry is primary and the list is resolved.
NoPrimaryAcceptedWitness ==
    /\ pc = "accelerators"
    /\ PrimaryEntries(config.networks) = {}
    /\ Len(common_launch_args.network_interfaces) = 2

\* The external flag of an entry was switched off ('noext' came last).
ExplicitNoExt(entry) ==
    LET flags == get_network_flags(entry.network_args).flags
    IN  "external" \in DOMAIN flags /\ ~flags["external"]

\* No external flag is given in an entry.
NoExternalFlag(entry) ==
    "external" \notin DOMAIN get_network_flags(entry.network_args).flags

\* C27: for a single network entry, an explicit noext flag suppresses
\* external access whichever network the entry names, the default network
\* included; without it the interface gets external access when the network
\* is the default network or no external flag is given.
SingleNetworkExternalAccess ==
    [][(/\ pc = "networks"
        /\ Len(config.networks) = 1
        /\ KnownFlags(config.networks)) =>
          /\ pc' = "accelerators"
          /\ LET entry == config.networks[1]
                 access ==
                     common_launch_args'.network_interfaces[1].accessConfigs
             IN  /\ ExplicitNoExt(entry) => ~access
                 /\ (/\ ~ExplicitNoExt(entry)
                     /\ \/ entry.network_def = <<"default">>
                        \/ NoExternalFlag(entry)) => access
      ]_vars

\* What the code does for a single network entry: external access exactly
\* when the network is the default network or the external flag is not
\* switched off.
SingleNetworkAccessAsCoded ==
    [][(/\ pc = "networks"
        /\ Len(config.networks) = 1
        /\ KnownFlags(config.networks)) =>
          /\ pc' = "accelerators"
          /\ common_launch_args'.network_interfaces[1].accessConfigs
                 <=> \/ config.networks[1].network_def = <<"default">>
                     \/ ~ExplicitNoExt(config.networks[1])
      ]_vars

\* C28: when ConfigurationError is raised for the networks or the
\* accelerators, no call to the gateway has been made, the image lookup
\* included.
ConfigurationErrorBeforeGatewayCalls ==
    (pc = "raised" /\ raised = "ConfigurationError") => log = <<>>

\* With the image given by URL, ConfigurationError is raised with no call
\* made.
ConfigurationErrorWithoutLookup ==
    (pc = "raised" /\ raised = "ConfigurationError"
        /\ config.image = "image_url") => log = <<>>

----------------------------------------------------------------------------
\* Properties of the reconciliation.

\* The number of provisioned events fired for node i.
EventsFor(evts, i) == Cardinality({k \in DOMAIN evts : evts[k] = i})

\* C29: the reconciliation sets the node of every request in 'success' to
\* Provisioned and fires exactly one provisioned event for it, does neither
\* for a request in any other state, and commits the database once, with
\* every request handled (what is committed is the session after the loop).
ReconciliationRule ==
    /\ [][reconciled' # reconciled =>
             /\ \A i \in Requests :
                    IF req[i].status = "success"
                    THEN /\ node'[i].state = "Provisioned"
                         /\ EventsFor(events', i) = EventsFor(events, i) + 1
                    ELSE /\ node'[i] = node[i]
                         /\ EventsFor(events', i) = EventsFor(events, i)
             /\ commits' = commits + 1
             /\ dbSession' = dbSession \ {i \in Requests :
                                            req[i].status # "success"}
             /\ dbCommitted' = dbSession'
       ]_vars
    /\ [](\A i \in DOMAIN req :
             /\ EventsFor(events, i) =
                    IF pc \in {"returning", "reraising", "done"}
                       /\ req[i].status = "success"
                    THEN 1 ELSE 0
             /\ node[i].state = "Provisioned" =>
                    /\ pc \in {"returning", "reraising", "done"}
                    /\ req[i].status = "success")

\* A batch of two was reconciled: one node provisioned with one event, the
\* other one cleaned up without any.
ReconciliationWitness ==
    /\ pc = "done"
    /\ count = 2
    /\ \E i, j \in Requests :
           /\ req[i].status = "success"
           /\ req[j].status = "error"
           /\ events = <<i>>
           /\ node[i].state = "Provisioned"
           /\ node[j].state # "Provisioned"
           /\ dbCommitted = {i}

\* C30: the partial-success warning is logged by the reconciliation exactly
\* when the number of requests in 'success' is above zero and below the
\* batch size, and it is not logged before the reconciliation.
WarningIffPartialSuccess ==
    IF pc \in {"returning", "reraising", "done"}
    THEN warned <=> (0 < Cardinality(Succeeded) /\ Cardinality(Succeeded) < count)
    ELSE ~warned

\* One of two requests succeeded and the warning was logged.
WarningWitness ==
    /\ pc = "done"
    /\ count = 2
    /\ Cardinality(Succeeded) = 1
    /\ warned

\* Both requests succeeded and no warning was logged.
NoWarningAllSucceededWitness ==
    /\ pc = "done"
    /\ count = 2
    /\ Cardinality(Succeeded) = 2
    /\ ~warned

\* No request succeeded and no warning was logged.
NoWarningNoneSucceededWitness ==
    /\ pc = "done"
    /\ count = 2
    /\ Succeeded = {}
    /\ ~warned

----------------------------------------------------------------------------
\* Further properties of the wait phase.

\* C31: once the wait phase is over (every queued request marked done), each
\* request in 'error' has its message set, so that the reading of the message
\* by __wait_for_instances does not fail with KeyError.
FailedRequestHasMessage ==
    (pc \in {"join", "post", "except", "returning", "reraising", "done"}
        /\ unfinished = 0 /\ queue = <<>>) =>
        /\ \A i \in DOMAIN req :
               req[i].status = "error" => req[i].message # NoMessage
        /\ pending # "KeyError"
        /\ raised # "KeyError"

----------------------------------------------------------------------------
\* Properties of the launch phase.

\* Some operation has been polled, or a greenlet exists that could poll.
PollingBegun ==
    \/ worker # <<>>
    \/ \E i \in DOMAIN req : req[i].poll # "none"

----------------------------------------------------------------------------
\* Further properties of the Operation Poller.

\* min(5000, pollingIntervalSeconds * 1000 * 2^attempt), in milliseconds
BackoffBase(att) ==
    Min(max_sleep_time, polling_interval * 1000 * Pow2(att))

\* C33: in _gevent_blocking_call the k-th sleep of a call, k >= 2, is the one
\* of attempt k - 1 and lasts between s/2 and s milliseconds, where s is the
\* capped backoff of that attempt; and every poll that returns raises the
\* attempt counter by exactly one.
JitteredBackoff ==
    /\ [](gevent =>
            \A k \in 2..Len(slept) :
                /\ 2 * slept[k] >= BackoffBase(k - 1)
                /\ slept[k] <= BackoffBase(k - 1))
    /\ [][(gevent /\ polls' = polls + 1 /\ pc' # "raised") =>
             /\ attempt' = attempt + 1
             /\ attempt = polls
             /\ Len(slept') > Len(slept) => Len(slept') = attempt'
       ]_vars

\* A call with a polling interval of 1 s slept three times: the second sleep
\* at the top of its range, the third at the bottom.
JitteredBackoffWitness ==
    /\ gevent
    /\ polling_interval = 1
    /\ attempt = 3
    /\ Len(slept) = 3
    /\ slept[2] = 2000
    /\ slept[3] = 2000

\* C34: while the backend has answered every poll for a queued request with
\* an operation that is not Done, the polling call has not returned: the
\* request is still to be marked done, the join barrier is closed and the
\* reconciliation has not run, however often it was polled.
NoPollerTimeout ==
    \A i \in DOMAIN req :
        (worker # <<>> /\ req[i].response /\ req[i].poll \in {"none", "RUNNING"})
            => /\ pc = "join"
               /\ unfinished > 0
               /\ reconciled = 0
               /\ req[i].status = "pending"
               /\ \/ \E k \in DOMAIN queue : queue[k] = i
                  \/ \E w \in DOMAIN worker :
                         worker[w].cur = i /\ worker[w].phase = "poll"

\* The first request of a batch of two is through, the second one is still
\* being polled and holds the barrier.
NoPollerTimeoutWitness ==
    /\ pc = "join"
    /\ count = 2
    /\ req[1].status = "success"
    /\ \A w \in DOMAIN worker : worker[w].cur # 1
    /\ req[2].poll = "none"
    /\ \E w \in DOMAIN worker : worker[w].cur = 2 /\ worker[w].phase = "poll"
    /\ unfinished = 1

\* C35: given that every polling, hook and delete call ends, the wait phase
\* ends: the join barrier is released with every queued request in 'success'
\* or 'error' and nothing left on the queue. A greenlet lets go of a request
\* only by marking it done, once (the count of unfinished tasks goes down by
\* one, also when the processing failed), and is then free for the next one;
\* the unfinished tasks are those queued plus those held.
WaitPhaseDrains ==
    /\ (pc = "join") ~>
           (/\ pc \in {"post", "except"}
            /\ unfinished = 0
            /\ queue = <<>>
            /\ \A i \in Queued : req[i].status \in {"success", "error"})
    /\ [](pc = "join" => unfinished = Len(queue) + Cardinality(Busy))
    /\ [][\A w \in DOMAIN worker :
             (w \in DOMAIN worker' /\ worker[w].cur # 0
              /\ worker'[w].cur # worker[w].cur) =>
                 /\ worker'[w] = [phase |-> "idle", cur |-> 0]
                 /\ unfinished' = unfinished - 1
                 /\ req'[worker[w].cur].status \in {"success", "error"}
                 /\ \A v \in DOMAIN worker \ {w} : worker'[v] = worker[v]
       ]_vars
    /\ [][(pc = "join" /\ unfinished' # unfinished) =>
             \E w \in DOMAIN worker :
                 worker[w].cur # 0 /\ worker'[w].cur = 0
       ]_vars

\* Eleven requests went through ten greenlets: the first request failed, the
\* greenlet that held it went on with the eleventh, and the barrier is open.
WaitPhaseDrainsWitness ==
    /\ count = 11
    /\ pc = "except"
    /\ unfinished = 0
    /\ req[1].status = "error"
    /\ req[1].poll = "exception"
    /\ req[11].status = "success"

\* The liveness half of C35 on its own.
WaitPhaseEnds ==
    (pc = "join") ~>
        (/\ pc \in {"post", "except"}
         /\ \A i \in Queued : req[i].status \in {"success", "error"})

----------------------------------------------------------------------------
\* Further properties of the reconciliation.

\* The node records still in the database, committed as provisioned.
KeptProvisioned ==
    {i \in DOMAIN node :
        i \in dbSession /\ i \in dbCommitted /\ node[i].state = "Provisioned"}

\* The node records deleted from the database.
Deleted == {i \in DOMAIN node : i \notin dbSession /\ i \notin dbCommitted}

\* C36 as stated: the reconciliation has run exactly once when Gce.start
\* ends, and each node record of the batch is then either returned as
\* provisioned or deleted, never both and never neither.
ReturnedOrDeleted ==
    /\ reconciled <= 1
    /\ pc = "done" =>
          /\ reconciled = 1
          /\ \A i \in Requests :
                 (i \in Range(result) /\ i \in KeptProvisioned)
                     <=> i \notin Deleted

\* C36, amended: the reconciliation has run exactly once when Gce.start ends,
\* whether the launch phase returned or raised; each node record is then
\* either kept and committed as provisioned (request in 'success') or deleted
\* (any other request), never both and never neither; the kept nodes are
\* returned when the launch phase returned, and when it raised the exception
\* is raised again and no node is returned.
KeptOrDeleted ==
    /\ reconciled <= 1
    /\ pc = "done" =>
          /\ reconciled = 1
          /\ \A i \in Requests :
                 /\ i \in KeptProvisioned <=> i \notin Deleted
                 /\ i \in KeptProvisioned <=> req[i].status = "success"
          /\ raised = pending
          /\ Range(result) = IF pending = "none" THEN KeptProvisioned ELSE {}
          /\ Len(result) = Cardinality(Range(result))

\* The launch phase raised with one request of two in 'success': its node is
\* kept as provisioned and not returned, the other node is deleted.
KeptOrDeletedWitness ==
    /\ pc = "done"
    /\ count = 2
    /\ raised = "CommandFailed"
    /\ reconciled = 1
    /\ KeptProvisioned = {1}
    /\ Deleted = {2}
    /\ result = <<>>

\* The launch phase returned and both nodes are returned as provisioned.
AllReturnedWitness ==
    /\ pc = "done"
    /\ count = 2
    /\ raised = "none"
    /\ reconciled = 1
    /\ result = <<1, 2>>
    /\ KeptProvisioned = {1, 2}

----------------------------------------------------------------------------
\* Further properties of the Post-Launch Hook.

\* The get call of the hook for request i failed with an HTTP error.
GetFailedWithHttpError(i) ==
    req[i].hook \in {"404", "get_httperror", "get_httperror_nofields"}

\* C37: after a get call that failed with an HTTP error of any status the
\* hook has returned without error: the request keeps 'success', no
\* __deleteInstance follows, the node has no network-interface record and is
\* not registered with the cluster, and the reconciliation commits it as
\* provisioned.
AnyHttpErrorMeansGone ==
    \A i \in DOMAIN req :
        GetFailedWithHttpError(i) =>
            /\ req[i].status = "success"
            /\ req[i].message = NoMessage
            /\ i \notin deleteCalls
            /\ node[i].nics = 0
            /\ i \notin registered
            /\ pc = "done" =>
                  /\ i \in dbCommitted
                  /\ node[i].state = "Provisioned"

\* What holds for an HTTP error whose body is not JSON or is the error
\* document of the backend: the hook returns without error and the node is
\* committed as provisioned with no network-interface record.
HttpErrorWithErrorDocumentMeansGone ==
    \A i \in DOMAIN req :
        req[i].hook \in {"404", "get_httperror"} =>
            /\ req[i].status = "success"
            /\ i \notin deleteCalls
            /\ node[i].nics = 0
            /\ i \notin registered
            /\ pc = "done" =>
                  /\ i \in dbCommitted
                  /\ node[i].state = "Provisioned"

----------------------------------------------------------------------------
\* Further properties of deleteNode.

\* The calls of deleteNode made so far, in list order: for every node before
\* the one at hand that has an instance mapping the delete call and then the
\* cleanup, nothing for a node without one.
RECURSIVE DeleteCallsUpTo(_)
DeleteCallsUpTo(n) ==
    IF n = 0 THEN <<>>
    ELSE DeleteCallsUpTo(n - 1) \o
         (IF node[n].instance THEN <<"delete", "cleanup">> ELSE <<>>)

\* The operations and the nodes of the calls made so far.
CallsOf(l) == [k \in DOMAIN l |-> l[k].call]

NodesOf(l) == [k \in DOMAIN l |-> l[k].node]

RECURSIVE DeleteNodesUpTo(_)
DeleteNodesUpTo(n) ==
    IF n = 0 THEN <<>>
    ELSE DeleteNodesUpTo(n - 1) \o
         (IF node[n].instance THEN <<n, n>> ELSE <<>>)

\* deleteNode has handled the nodes before the one at hand, in list order,
\* each with its delete call answered normally or with 404 and followed by
\* its cleanup, and has made no call for a node without an instance mapping.
HandledInListOrder ==
    LET done == DeleteCallsUpTo(idx - 1)
        doneNodes == DeleteNodesUpTo(idx - 1)
    IN  /\ \/ /\ CallsOf(log) = done
              /\ NodesOf(log) = doneNodes
           \/ /\ CallsOf(log) = Append(done, "delete")
              /\ NodesOf(log) = Append(doneNodes, idx)
              /\ pc \in {"node_cleanup", "done"}
        /\ \A k \in DOMAIN log :
              log[k].call = "delete" /\ k < Len(log) =>
                  log[k].reply \in {"ok", "404"}

\* A delete call that failed is the last call of deleteNode: the exception
\* is raised (CommandFailed for an HTTP error other than 404), the node is
\* not cleaned up and no later node has been touched.
FailedDeleteEndsDeleteNode ==
    \A k \in DOMAIN log :
        (log[k].call = "delete" /\ log[k].reply \notin {"ok", "404"}) =>
            /\ k = Len(log)
            /\ pc = "done"
            /\ log[k].reply = "HttpError" => raised = "CommandFailed"
            /\ raised # "none"
            /\ \A j \in Requests :
                  j >= log[k].node => j \notin cleared
            /\ \A j \in Requests :
                  j > log[k].node => j \notin deleteCalls

\* The catalog and the session entry of a node change only in the cleanup
\* that follows its own delete call, answered normally or with 404; the
\* backend is called only for the node at hand, which has an instance
\* mapping.
CleanupOnlyAfterDelete ==
    [][\A i \in Requests :
          /\ (catalog'[i] # catalog[i] \/ (i \in cleared' /\ i \notin cleared)) =>
                /\ i = idx
                /\ node[i].instance
                /\ log # <<>>
                /\ log[Len(log)].call = "delete"
                /\ log[Len(log)].node = i
                /\ log[Len(log)].reply \in {"ok", "404"}
          /\ (i \in deleteCalls' /\ i \notin deleteCalls) =>
                i = idx /\ node[i].instance
          /\ cloud'[i] # cloud[i] => i = idx /\ node[i].instance]_vars

\* C38: deleteNode handles the nodes in list order; a node without an
\* instance mapping causes no gateway call and no catalog change; for any
\* other node the delete call comes before the cleanup, which runs only after
\* the delete returned normally or with 404; a delete that failed with
\* another HTTP error raises CommandFailed and leaves the catalog entries of
\* that node and all later nodes untouched.
DeleteNodeInListOrder ==
    /\ [](HandledInListOrder /\ FailedDeleteEndsDeleteNode)
    /\ CleanupOnlyAfterDelete

\* The first node is deleted and cleaned up, the delete call of the second
\* fails with an HTTP error: its catalog entries are still there.
DeleteNodeInListOrderWitness ==
    /\ pc = "done"
    /\ raised = "CommandFailed"
    /\ count = 2
    /\ added = {1, 2}
    /\ nondefault = {}
    /\ CallsOf(log) = <<"delete", "cleanup", "delete">>
    /\ NodesOf(log) = <<1, 1, 2>>
    /\ catalog[1] = {}
    /\ catalog[2] = added
    /\ cleared = {1}

\* The delete call of the first node fails: the second node, which has an
\* instance, is not touched.
LaterNodesUntouchedWitness ==
    /\ pc = "done"
    /\ raised = "CommandFailed"
    /\ count = 2
    /\ NodesOf(log) = <<1>>
    /\ node[2].instance
    /\ cloud[2] = "running"
    /\ catalog[2] = {1, 2}
    /\ deleteCalls = {1}
    /\ cleared = {}

\* The first node has no instance mapping and is passed over, the second is
\* deleted and cleaned up.
SkippedNodeWitness ==
    /\ pc = "done"
    /\ raised = "none"
    /\ count = 2
    /\ ~node[1].instance
    /\ catalog[1] = {1, 2}
    /\ cloud[1] = "running"
    /\ NodesOf(log) = <<2, 2>>
    /\ cleared = {2}

----------------------------------------------------------------------------
\* Properties of rebootNode.

\* The calls made for node i, in order.
CallsFor(i) == SelectSeq(log, LAMBDA e : e.node = i)

\* The nodes are taken in list order, one at a time: the calls for a node
\* are one reset and then the polls of its operation, all of them before the
\* first call for the next node, and no node of the list is passed over.
ResetInListOrder ==
    /\ \A k \in DOMAIN log :
          /\ log[k].node \in 1..idx
          /\ k > 1 => log[k].node \in {log[k - 1].node, log[k - 1].node + 1}
          /\ log[k].call = "reset" <=>
                (k = 1 \/ log[k].node = log[k - 1].node + 1)
          /\ k = 1 => log[k].node = 1
    /\ \A i \in 1..(idx - 1) :
          i \in Requests => CallsFor(i) # <<>>

\* An HTTP error other than 404, from the reset or from a poll, ends
\* rebootNode with CommandFailed: it is the last call made.
OtherHttpErrorRaises ==
    \A k \in DOMAIN log :
        log[k].reply = "HttpError" =>
            /\ k = Len(log)
            /\ pc = "done"
            /\ raised = "CommandFailed"

\* A 404 from the reset or from a poll is passed over: the node is left and
\* nothing is raised for it (what is raised next is raised for the next
\* node, which has no instance mapping).
NotFoundIsPassedOver ==
    \A k \in DOMAIN log :
        log[k].reply = "404" =>
            /\ idx > log[k].node
            /\ k < Len(log) => log[k + 1].call = "reset"
            /\ (k = Len(log) /\ raised # "none") =>
                  /\ raised = "AttributeError"
                  /\ idx = log[k].node + 1
                  /\ ~node[idx].instance

\* C39 as stated: the reset of a node is made only when the node before it
\* was passed over with a 404 or its operation was polled to DONE.
ResetAfterDone ==
    /\ ResetInListOrder
    /\ OtherHttpErrorRaises
    /\ NotFoundIsPassedOver
    /\ \A k \in DOMAIN log :
          (k > 1 /\ log[k].call = "reset") =>
              \/ log[k - 1].reply = "404"
              \/ /\ log[k - 1].call = "rebooted"
                 /\ log[k - 1].reply = "DONE"

\* C39, amended: the reset of a node is made only when the node before it
\* was passed over with a 404 or _blocking_call returned for it, which it
\* does when the operation is DONE or when a poll was answered with an empty
\* response; the operation is polled as long as neither is the case.
ResetAfterDoneOrEmpty ==
    /\ ResetInListOrder
    /\ OtherHttpErrorRaises
    /\ NotFoundIsPassedOver
    /\ \A k \in DOMAIN log :
          /\ (k > 1 /\ log[k].call = "reset") =>
                \/ log[k - 1].reply = "404"
                \/ /\ log[k - 1].call = "rebooted"
                   /\ log[k - 1].reply \in {"DONE", "<empty>"}
          /\ log[k].call = "rebooted" =>
                /\ k > 1
                /\ log[k - 1].call \in {"reset", "poll"}
                /\ log[k - 1].reply = log[k].reply
                /\ log[k].reply = "<empty>" => log[k - 1].call = "poll"
          /\ log[k].call = "poll" =>
                /\ k > 1
                /\ log[k - 1].call \in {"reset", "poll"}
                /\ log[k - 1].reply = "RUNNING"

\* The operation of the first node is polled three times until it is DONE,
\* then the second node is reset and the reset fails with an HTTP error.
ResetAfterDoneWitness ==
    /\ pc = "done"
    /\ raised = "CommandFailed"
    /\ CallsOf(log) = <<"reset", "poll", "poll", "poll", "rebooted", "reset">>
    /\ NodesOf(log) = <<1, 1, 1, 1, 1, 2>>
    /\ log[4].reply = "DONE"
    /\ log[6].reply = "HttpError"
    /\ Len(slept) = 0

\* A poll of the first node's operation is answered with an empty response
\* and the second node is reset although the operation was not seen DONE.
ResetAfterEmptyWitness ==
    /\ CallsOf(log) = <<"reset", "poll", "rebooted", "reset">>
    /\ NodesOf(log) = <<1, 1, 1, 2>>
    /\ log[2].reply = "<empty>"
    /\ status = "RUNNING" \/ log[4].reply \in RebootExceptions

\* The first node is gone (404 from the reset), the poll of the second
\* node's operation is answered with 404: rebootNode returns normally.
NotFoundPassedOverWitness ==
    /\ pc = "done"
    /\ raised = "none"
    /\ count = 2
    /\ CallsOf(log) = <<"reset", "reset", "poll">>
    /\ log[1].reply = "404"
    /\ log[3].reply = "404"

====
